---- MODULE Spec2Model ----
(***************************************************************************)
(* Plan application engine of aninamer (src/aninamer/apply.py): validation *)
(* of a rename plan, the single-stage executor driven by the move          *)
(* scheduler, the two-stage (staged) executor, and their rollback paths,   *)
(* run against a small filesystem tree.                                    *)
(*                                                                         *)
(* A path is a sequence of name components, <<>> being the filesystem      *)
(* root.  The filesystem is a function from the paths that exist to DIR or *)
(* to the content of a regular file.  There are no symbolic links and one  *)
(* device, so os.rename never falls back to copying.                       *)
(***************************************************************************)
EXTENDS Integers, Sequences, FiniteSets, TLC

\* ------------------------------------------------------------------ bounds
\* Longest plan (number of moves) given to apply_rename_plan.
MaxMoves == 2
\* How many shutil.move calls the environment may make raise (fault injection,
\* as the flaky_move of test_apply_rolls_back_on_failure).
MaxFaults == 1
\* How many calls of apply_rename_plan follow each other on the same tree.
MaxCalls == 2

\* ------------------------------------------------------------------ paths
DIR == "<dir>"
None == <<"<None>">>

OutputRoot == <<"out">>
PathA == <<"out", "a.mkv">>
PathB == <<"out", "b.ass">>
PathS == <<"out", "S">>
PathX == <<"out", "S", "x.mkv">>
PathC == <<"in", "c.mkv">>
\* The same file as PathA, spelled through a parent reference.
PathA2 == <<"out", "S", "..", "a.mkv">>

\* The paths the plan at hand may name as src and as dst (a rollback plan
\* names them the other way round).
SrcPaths == {PathA, PathB, PathC}
DstPaths == {PathA, PathB, PathS, PathX, PathC, PathA2}

Front(p) == SubSeq(p, 1, Len(p) - 1)
Last(p) == p[Len(p)]
Parent(p) == IF p = <<>> THEN <<>> ELSE Front(p)
IsPrefix(p, q) == Len(p) <= Len(q) /\ SubSeq(q, 1, Len(p)) = p
Prefixes(p) == {SubSeq(p, 1, n) : n \in 0..Len(p)}

\* Path.suffix of the final component.
Suffix(p) ==
  CASE Last(p) \in {"a.mkv", "x.mkv", "c.mkv", "e1.mkv", "late.mkv", "bonus.mkv"} -> ".mkv"
    [] Last(p) \in {"b.ass", "e1.ass"} -> ".ass"
    [] OTHER -> ""

\* kind and src_id the scanner gives a file: videos are numbered from 1 in
\* each scanned directory, subtitles after them.
KindOf(p) == IF Suffix(p) = ".ass" THEN "subtitle" ELSE "video"
SrcIdOf(p) ==
  CASE Last(p) \in {"a.mkv", "c.mkv"} -> 1
    [] Last(p) = "x.mkv" -> 2
    [] OTHER -> 3

\* Path.resolve(strict=False) on a tree without symbolic links: "." is
\* dropped and ".." removes the component before it.
RECURSIVE _resolve_path(_)
_resolve_path(p) ==
  IF p = <<>> THEN <<>>
  ELSE LET r == _resolve_path(Front(p))
       IN CASE Last(p) = "." -> r
            [] Last(p) = ".." -> Parent(r)
            [] OTHER -> Append(r, Last(p))

\* ------------------------------------------------------------- filesystem
Exists(f, p) == p \in DOMAIN f
IsDir(f, p) == Exists(f, p) /\ f[p] = DIR
IsFile(f, p) == Exists(f, p) /\ f[p] # DIR
Files(f) == {p \in DOMAIN f : f[p] # DIR}
FileMap(f) == [p \in Files(f) |-> f[p]]
Children(f, p) == {q \in DOMAIN f : Len(q) = Len(p) + 1 /\ IsPrefix(p, q)}

\* Path.mkdir(parents=True, exist_ok=True): raises when the path or one of
\* its ancestors exists and is not a directory, creating nothing.
MkdirOk(f, p) == \A q \in Prefixes(p) : Exists(f, q) => IsDir(f, q)
Mkdir(f, p) ==
  [q \in DOMAIN f \cup Prefixes(p) |-> IF Exists(f, q) THEN f[q] ELSE DIR]

\* os.rename(s, d) of an existing s onto an absent d or onto a regular file:
\* the subtree at s is re-rooted at d.
Rename(f, s, d) ==
  LET moved == {q \in DOMAIN f : IsPrefix(s, q)}
      kept == {q \in DOMAIN f : ~IsPrefix(s, q) /\ ~IsPrefix(d, q)}
      To(q) == d \o SubSeq(q, Len(s) + 1, Len(q))
      From(q) == s \o SubSeq(q, Len(d) + 1, Len(q))
  IN [q \in kept \cup {To(x) : x \in moved} |->
        IF IsPrefix(d, q) THEN f[From(q)] ELSE f[q]]

\* shutil.move(src, dst): where the entry ends up (an existing directory dst
\* receives it under its own name).
RealDst(f, src, dst) == IF IsDir(f, dst) THEN Append(dst, Last(src)) ELSE dst

\* shutil.move succeeds iff src exists, the real destination's parent is a
\* directory, an entry is not put into a directory that already holds its
\* name nor into itself, and a directory is not renamed onto a file.
MoveOk(f, src, dst) ==
  LET real == RealDst(f, src, dst)
  IN /\ Exists(f, src)
     /\ IsDir(f, Parent(real))
     /\ (IsDir(f, dst) => ~Exists(f, real))
     /\ (real # src => ~IsPrefix(src, real))
     /\ (IsDir(f, src) => ~IsFile(f, real))

Move(f, src, dst) ==
  LET real == RealDst(f, src, dst)
  IN IF real = src THEN f ELSE Rename(f, src, real)

\* ------------------------------------------------------------------ plans
\* PlannedMove (plan.py); a plan's moves are a sequence of these.
PlannedMove(s, d) == [src |-> s, dst |-> d, kind |-> KindOf(s), src_id |-> SrcIdOf(s)]
AllMoves == {PlannedMove(s, d) : s \in SrcPaths, d \in DstPaths}
Plans == UNION {[1..n -> AllMoves] : n \in 0..MaxMoves}

\* The trees a call may start from: the series directory "in" always holds
\* c.mkv; the output root is absent, or holds a.mkv and b.ass and an entry S
\* that is absent, a regular file or an empty directory.
BaseTree == (<<>> :> DIR) @@ (<<"in">> :> DIR) @@ (PathC :> "c")
OutTree == BaseTree @@ (OutputRoot :> DIR) @@ (PathA :> "a") @@ (PathB :> "b")
InitialTrees ==
  { BaseTree,
    OutTree,
    OutTree @@ (PathS :> "s"),
    OutTree @@ (PathS :> DIR) }

\* ------------------------------------------------------------------ state
VARIABLES
  fs,              \* the filesystem tree
  plan,            \* plan.moves of the current (or first) call
  dry_run,         \* the call's dry_run argument
  two_stage,       \* the call's two_stage argument
  pc,              \* where the call stands
  moves_to_apply,  \* list of (move, src, dst) with resolved src # dst
  order,           \* _single_stage_order's result
  idx,             \* position of the running loop
  applied,         \* moves done so far by _apply_single_stage
  staged,          \* records (move, src, dst, tmp_path) of _apply_two_stage
  temp_dir,        \* the staging directory of the call, or None
  result,          \* the ApplyResult returned
  error,           \* the message of the ApplyError raised, or NoError
  faults,          \* shutil.move calls the environment may still make raise
  calls,           \* calls of apply_rename_plan made so far
  fs0,             \* history: the tree when the current call started
  prev,            \* history: the previous call (plan, arguments, its tree)
  trace            \* history: what failed in the current call

\* The monitor (cli.py, _monitor_loop) on top of the apply engine.
VARIABLES
  state_file,            \* monitor_state.json as it is on disk
  state,                 \* the MonitorState the running pass holds in memory
  plan_files,            \* the rename plan files under log_path/plans
  mpc,                   \* where the monitor process stands
  queue,                 \* what is left of the list the running loop walks
  current_dirs,          \* the directories discovered by the running pass
  baseline_bootstrapped, \* the process's flag of that name
  args,                  \* the command line of the running process
  now,                   \* time.time()
  mtime,                 \* st_mtime of the entries under the input root
  rc,                    \* the exit code of the last run that returned
  shutdown_requested,    \* the flag SIGTERM and SIGINT set in the process
  budget,                \* passes, crashes and arrivals still allowed
  last,                  \* history: what the latest step did
  pass,                  \* history: the running pass so far
  ever                   \* history: what the state file has recorded so far

avars == <<fs, plan, dry_run, two_stage, pc, moves_to_apply, order, idx, applied,
           staged, temp_dir, result, error, faults, calls, fs0, prev, trace>>

mvars == <<state_file, state, plan_files, mpc, queue, current_dirs,
           baseline_bootstrapped, args, now, mtime, rc, shutdown_requested,
           budget, last, pass, ever>>

vars == <<avars, mvars>>

NoError == "none"
ErrSource == "source does not exist or is not a file"
ErrParent == "destination parent is not a directory"
ErrDestination == "destination already exists"
ErrCycle == "cycle detected in rename plan; re-run with --two-stage"
ErrOutputRoot == "failed to create output_root"
ErrTempDir == "failed to create temp dir"
ErrApply == "apply failed"

NoResult ==
  [returned |-> FALSE, dry_run |-> FALSE, applied |-> <<>>,
   rollback_moves |-> <<>>, temp_dir |-> None]

NoTrace ==
  [phase |-> "none", k |-> 0, injected |-> FALSE, rollback_failed |-> FALSE]

NoPrev ==
  [valid |-> FALSE, plan |-> <<>>, dry_run |-> FALSE, two_stage |-> FALSE,
   fs0 |-> BaseTree]

Min(S) == CHOOSE x \in S : \A y \in S : x <= y

\* -------------------------------------------------------- pure functions
\* A rollback built from the executed moves only: the no-op moves are left out.
RollbackOfExecuted(moves) ==
  LET RECURSIVE Keep(_)
      Keep(ms) ==
        IF ms = <<>> THEN <<>>
        ELSE LET m == ms[Len(ms)]
             IN IF _resolve_path(m.src) = _resolve_path(m.dst)
                THEN Keep(Front(ms))
                ELSE Append(Keep(Front(ms)),
                            [src |-> m.dst, dst |-> m.src,
                             kind |-> m.kind, src_id |-> m.src_id])
  IN Keep(moves)

\* build_rollback_moves: every move of the plan with src and dst swapped.
build_rollback_moves(moves) ==
  [i \in 1..Len(moves) |->
     [src |-> moves[i].dst, dst |-> moves[i].src,
      kind |-> moves[i].kind, src_id |-> moves[i].src_id]]

\* _validate_parent_creatable: no existing entry from dst.parent up to the
\* root is a non-directory.
_validate_parent_creatable(f, dst) ==
  \A q \in Prefixes(_resolve_path(Parent(dst))) : Exists(f, q) => IsDir(f, q)

sources_set(moves) == {_resolve_path(moves[i].src) : i \in 1..Len(moves)}

\* The validation pass without the check of an existing destination.
ValidateMoveNoDestination(f, moves, move) ==
  LET src == _resolve_path(move.src)
  IN IF ~IsFile(f, src) THEN ErrSource
     ELSE IF ~_validate_parent_creatable(f, move.dst) THEN ErrParent
     ELSE NoError

\* One pass of the validation loop of apply_rename_plan: the error the move
\* raises, or NoError.
ValidateMove(f, moves, move) ==
  LET src == _resolve_path(move.src)
      dst == _resolve_path(move.dst)
  IN IF ~IsFile(f, src) THEN ErrSource
     ELSE IF ~_validate_parent_creatable(f, move.dst) THEN ErrParent
     ELSE IF Exists(f, dst) /\ dst \notin sources_set(moves) THEN ErrDestination
     ELSE NoError

\* The error the validation loop raises: that of the first offending move.
ValidationError(f, moves) ==
  LET bad == {i \in 1..Len(moves) : ValidateMove(f, moves, moves[i]) # NoError}
  IN IF bad = {} THEN NoError ELSE ValidateMove(f, moves, moves[Min(bad)])

\* moves_to_apply without the src = dst filter: every move is executed.
MovesToApplyUnfiltered(moves) ==
  [i \in 1..Len(moves) |->
     [move |-> moves[i], src |-> _resolve_path(moves[i].src),
      dst |-> _resolve_path(moves[i].dst)]]

\* moves_to_apply: the (move, src, dst) triples whose resolved src # dst.
RECURSIVE MovesToApply(_)
MovesToApply(moves) ==
  IF moves = <<>> THEN <<>>
  ELSE LET move == moves[Len(moves)]
           src == _resolve_path(move.src)
           dst == _resolve_path(move.dst)
           rest == MovesToApply(Front(moves))
       IN IF src = dst THEN rest
          ELSE Append(rest, [move |-> move, src |-> src, dst |-> dst])

\* AppliedMove of each executed record, in execution order.
AppliedMoves(records) ==
  [i \in 1..Len(records) |->
     [src |-> records[i].move.src, dst |-> records[i].move.dst,
      kind |-> records[i].move.kind, src_id |-> records[i].move.src_id]]

\* _single_stage_order.  src_to_idx keeps the first index of each src; move i
\* waits for the move whose src is i's dst (dep_idx), unless that is i itself.
\* Indices are 1-based here.
DepIdx(mta, i) ==
  LET c == {j \in 1..Len(mta) : mta[j].src = mta[i].dst}
  IN IF c = {} \/ Min(c) = i THEN 0 ELSE Min(c)

Adjacency(mta, j) == {i \in 1..Len(mta) : DepIdx(mta, i) = j}

\* The loop of the scheduler popping the largest ready index instead of the
\* smallest.
RECURSIVE KahnLargestFirst(_, _, _, _)
KahnLargestFirst(mta, heap, indegree, out) ==
  IF heap = {} THEN out
  ELSE LET i == CHOOSE x \in heap : \A y \in heap : y <= x
           next == [k \in 1..Len(mta) |->
                      IF k \in Adjacency(mta, i) THEN indegree[k] - 1
                      ELSE indegree[k]]
           ready == {k \in Adjacency(mta, i) : next[k] = 0}
       IN KahnLargestFirst(mta, (heap \ {i}) \cup ready, next, Append(out, i))

\* The while loop of _single_stage_order: heappop gives the smallest ready
\* index, whose dependents lose one in-degree and are pushed when they reach 0.
RECURSIVE Kahn(_, _, _, _)
Kahn(mta, heap, indegree, out) ==
  IF heap = {} THEN out
  ELSE LET i == Min(heap)
           next == [k \in 1..Len(mta) |->
                      IF k \in Adjacency(mta, i) THEN indegree[k] - 1
                      ELSE indegree[k]]
           ready == {k \in Adjacency(mta, i) : next[k] = 0}
       IN Kahn(mta, (heap \ {i}) \cup ready, next, Append(out, i))

\* An order that ignores the dependencies: the input order.
InputOrder(mta) == [i \in 1..Len(mta) |-> i]

_single_stage_order(mta) ==
  LET indegree == [i \in 1..Len(mta) |-> IF DepIdx(mta, i) = 0 THEN 0 ELSE 1]
  IN Kahn(mta, {i \in 1..Len(mta) : indegree[i] = 0}, indegree, <<>>)

\* The order is short exactly when the scheduler raises the cycle error.
CycleDetected(mta) == Len(_single_stage_order(mta)) # Len(mta)

\* _unique_temp_path: base_name, or base_name.<counter> with the first
\* counter from 1 whose path does not exist.
RECURSIVE TempCounter(_, _, _, _)
TempCounter(f, dir, base_name, counter) ==
  LET candidate == Append(dir, base_name \o "." \o ToString(counter))
  IN IF ~Exists(f, candidate) THEN candidate
     ELSE TempCounter(f, dir, base_name, counter + 1)

\* A slot name taken without looking whether it is in use.
TempPathNoCounter(f, dir, base_name) == Append(dir, base_name)

_unique_temp_path(f, dir, base_name) ==
  IF ~Exists(f, Append(dir, base_name)) THEN Append(dir, base_name)
  ELSE TempCounter(f, dir, base_name, 1)

\* base_name = f"{move.kind}_{move.src_id}{src.suffix}"
BaseName(move, src) == move.kind \o "_" \o ToString(move.src_id) \o Suffix(src)

\* temp_dir = output_root / f".aninamer_tmp_{uuid4().hex}": a name no earlier
\* call used.
TempDirOf(call) == Append(_resolve_path(OutputRoot), ".aninamer_tmp_" \o ToString(call))

\* dst.parent.mkdir(parents=True, exist_ok=True) followed by
\* shutil.move(from, dst), as both executors do it: whether the mkdir went
\* through, the tree after it, whether both calls went through, and the tree
\* they leave (a failing call changes nothing).
PlaceStep(f, from, dst) ==
  LET made == MkdirOk(f, Parent(dst))
      mid == IF made THEN Mkdir(f, Parent(dst)) ELSE f
      ok == made /\ MoveOk(mid, from, dst)
  IN [made |-> made, mid |-> mid, ok |-> ok,
      fs |-> IF ok THEN Move(mid, from, dst) ELSE mid]

\* One pass of the staging loop: the slot chosen and shutil.move(src, slot).
StageStep(f, dir, rec) ==
  LET tmp_path == _unique_temp_path(f, dir, BaseName(rec.move, rec.src))
      ok == MoveOk(f, rec.src, tmp_path)
  IN [ok |-> ok, fs |-> IF ok THEN Move(f, rec.src, tmp_path) ELSE f,
      record |-> [move |-> rec.move, src |-> rec.src, dst |-> rec.dst,
                  tmp_path |-> tmp_path]]

\* temp_dir.rmdir() if temp_dir exists and is empty.
RemoveIfEmpty(f, dir) ==
  IF Exists(f, dir) /\ Children(f, dir) = {}
  THEN [q \in DOMAIN f \ {dir} |-> f[q]]
  ELSE f

\* ---------------------------------------------------------------- actions
Init ==
  /\ fs \in InitialTrees
  /\ plan \in Plans
  /\ dry_run = FALSE
  /\ two_stage = FALSE
  /\ pc = "idle"
  /\ moves_to_apply = <<>>
  /\ order = <<>>
  /\ idx = 0
  /\ applied = <<>>
  /\ staged = <<>>
  /\ temp_dir = None
  /\ result = NoResult
  /\ error = NoError
  /\ faults = MaxFaults
  /\ calls = 0
  /\ fs0 = fs
  /\ prev = NoPrev
  /\ trace = NoTrace
  /\ state_file = [origin |-> "missing",
                   state |-> [baseline |-> {}, pending |-> {}, planned |-> {},
                              processed |-> {}, failed |-> {}]]
  /\ state = state_file.state
  /\ plan_files = <<>>
  /\ mpc = "stopped"
  /\ queue = <<>>
  /\ current_dirs = {}
  /\ baseline_bootstrapped = FALSE
  /\ args = <<>>
  /\ now = 0
  /\ mtime = <<>>
  /\ rc = "none"
  /\ shutdown_requested = FALSE
  /\ budget = <<>>
  /\ last = [op |-> "init", dir |-> "none"]
  /\ pass = <<>>
  /\ ever = <<>>

\* Whether the environment makes the shutil.move call at hand raise.
Injections == IF faults > 0 THEN BOOLEAN ELSE {FALSE}

Returned(dry, applied_moves, moves, dir) ==
  [returned |-> TRUE, dry_run |-> dry, applied |-> applied_moves,
   rollback_moves |-> build_rollback_moves(moves), temp_dir |-> dir]

\* A dispatch that does not look at dry_run.
DispatchIgnoringDryRun(dry, two, mta) ==
  IF mta = <<>> THEN "done"
  ELSE IF two THEN "two_stage"
  ELSE "single_stage"

\* apply_rename_plan, lines 268-288: where the call goes once the validation
\* loop is over.
Dispatch(dry, two, mta) ==
  IF dry \/ mta = <<>> THEN "done"
  ELSE IF two THEN "two_stage"
  ELSE "single_stage"

\* apply_rename_plan(plan, dry_run, two_stage) up to the choice of executor:
\* the validation loop, the dry-run return and the nothing-to-do return.
apply_rename_plan(moves, dry, two) ==
  /\ pc \in {"idle", "done"}
  /\ calls < MaxCalls
  /\ LET err == ValidationError(fs, moves)
         mta == MovesToApply(moves)
     IN /\ error' = err
        /\ moves_to_apply' = IF err = NoError THEN mta ELSE <<>>
        /\ pc' = IF err # NoError THEN "failed" ELSE Dispatch(dry, two, mta)
        /\ result' = IF err = NoError /\ Dispatch(dry, two, mta) = "done"
                     THEN Returned(dry, <<>>, moves, None)
                     ELSE NoResult
        /\ trace' = IF err # NoError
                    THEN [NoTrace EXCEPT !.phase = "validate"]
                    ELSE NoTrace
  /\ plan' = moves
  /\ dry_run' = dry
  /\ two_stage' = two
  /\ calls' = calls + 1
  /\ fs0' = fs
  /\ prev' = IF calls = 0 THEN NoPrev
             ELSE [valid |-> TRUE, plan |-> plan, dry_run |-> dry_run,
                   two_stage |-> two_stage, fs0 |-> fs0]
  /\ order' = <<>>
  /\ idx' = 0
  /\ applied' = <<>>
  /\ staged' = <<>>
  /\ temp_dir' = None
  /\ UNCHANGED mvars
  /\ UNCHANGED <<fs, faults>>

\* The calls made: the first applies the plan at hand in any mode; a call that
\* returned is followed by a dry run of the same plan, or by applying the plan
\* built from the rollback moves it returned, in the same mode.
Call ==
  \/ /\ calls = 0
     /\ \E dry \in BOOLEAN, two \in BOOLEAN : apply_rename_plan(plan, dry, two)
  \/ /\ calls > 0
     /\ apply_rename_plan(plan, TRUE, two_stage)
  \/ /\ calls > 0
     /\ apply_rename_plan(result.rollback_moves, dry_run, two_stage)

\* A scheduler step that hands a cyclic batch to the staged executor instead
\* of raising.
SingleStageOrderFallback ==
  /\ pc = "single_stage"
  /\ IF CycleDetected(moves_to_apply)
     THEN /\ pc' = "two_stage"
          /\ UNCHANGED <<order, idx>>
     ELSE /\ pc' = "single_move"
          /\ order' = _single_stage_order(moves_to_apply)
          /\ idx' = 1
  /\ UNCHANGED mvars
  /\ UNCHANGED <<fs, plan, dry_run, two_stage, moves_to_apply, applied, staged,
                 temp_dir, result, error, faults, calls, fs0, prev, trace>>

\* _apply_single_stage, line 108: the scheduler's order, or its cycle error
\* (raised before the try block, so nothing is rolled back).
SingleStageOrder ==
  /\ pc = "single_stage"
  /\ IF CycleDetected(moves_to_apply)
     THEN /\ pc' = "failed"
          /\ error' = ErrCycle
          /\ trace' = [trace EXCEPT !.phase = "order"]
          /\ UNCHANGED <<order, idx>>
     ELSE /\ pc' = "single_move"
          /\ order' = _single_stage_order(moves_to_apply)
          /\ idx' = 1
          /\ UNCHANGED <<error, trace>>
  /\ UNCHANGED mvars
  /\ UNCHANGED <<fs, plan, dry_run, two_stage, moves_to_apply, applied, staged,
                 temp_dir, result, faults, calls, fs0, prev>>

\* One pass of the loop of _apply_single_stage: mkdir of dst.parent, then
\* shutil.move(src, dst).  An exception leaves for the rollback loop.
SingleMove ==
  /\ pc = "single_move"
  /\ idx <= Len(order)
  /\ LET rec == moves_to_apply[order[idx]]
         step == PlaceStep(fs, rec.src, rec.dst)
     IN \E inject \in (IF step.made THEN Injections ELSE {FALSE}) :
          LET ok == step.ok /\ ~inject
          IN /\ fs' = IF inject THEN step.mid ELSE step.fs
             /\ applied' = IF ok THEN Append(applied, rec) ELSE applied
             /\ pc' = IF ok THEN "single_move" ELSE "single_rollback"
             /\ idx' = IF ok THEN idx + 1 ELSE Len(applied)
             /\ faults' = IF inject THEN faults - 1 ELSE faults
             /\ trace' = IF ok THEN trace
                         ELSE [trace EXCEPT !.phase = "single", !.k = idx,
                                            !.injected = inject]
  /\ UNCHANGED mvars
  /\ UNCHANGED <<plan, dry_run, two_stage, moves_to_apply, order, staged,
                 temp_dir, result, error, calls, fs0, prev>>

\* _apply_single_stage, lines 125-140: the result after the last move.
SingleReturn ==
  /\ pc = "single_move"
  /\ idx > Len(order)
  /\ pc' = "done"
  /\ result' = Returned(FALSE, AppliedMoves(applied), plan, None)
  /\ UNCHANGED mvars
  /\ UNCHANGED <<fs, plan, dry_run, two_stage, moves_to_apply, order, idx,
                 applied, staged, temp_dir, error, faults, calls, fs0, prev, trace>>

\* One pass of the rollback loop of _apply_single_stage, over reversed(applied):
\* if dst exists it is moved back to src; an exception is logged.
SingleRollback ==
  /\ pc = "single_rollback"
  /\ idx >= 1
  /\ LET rec == applied[idx]
         there == Exists(fs, rec.dst)
     IN \E inject \in (IF there THEN Injections ELSE {FALSE}) :
          LET ok == there /\ ~inject /\ MoveOk(fs, rec.dst, rec.src)
          IN /\ fs' = IF ok THEN Move(fs, rec.dst, rec.src) ELSE fs
             /\ faults' = IF inject THEN faults - 1 ELSE faults
             /\ trace' = IF there /\ ~ok
                         THEN [trace EXCEPT !.rollback_failed = TRUE]
                         ELSE trace
  /\ idx' = idx - 1
  /\ UNCHANGED mvars
  /\ UNCHANGED <<plan, dry_run, two_stage, pc, moves_to_apply, order, applied,
                 staged, temp_dir, result, error, calls, fs0, prev>>

\* _apply_single_stage, line 155: the ApplyError after the rollback loop.
SingleRaise ==
  /\ pc = "single_rollback"
  /\ idx = 0
  /\ pc' = "failed"
  /\ error' = ErrApply
  /\ UNCHANGED mvars
  /\ UNCHANGED <<fs, plan, dry_run, two_stage, moves_to_apply, order, idx,
                 applied, staged, temp_dir, result, faults, calls, fs0, prev, trace>>

\* _apply_two_stage, lines 163-176: output_root and the fresh temp_dir are
\* created (either mkdir failing raises at once).
TwoStageSetup ==
  /\ pc = "two_stage"
  /\ LET output_root == _resolve_path(OutputRoot)
         made == MkdirOk(fs, output_root)
         f1 == IF made THEN Mkdir(fs, output_root) ELSE fs
         dir == TempDirOf(calls)
         fresh == made /\ ~Exists(f1, dir)
     IN /\ fs' = IF fresh THEN Mkdir(f1, dir) ELSE f1
        /\ temp_dir' = IF fresh THEN dir ELSE None
        /\ pc' = IF fresh THEN "stage" ELSE "failed"
        /\ idx' = IF fresh THEN 1 ELSE idx
        /\ error' = IF fresh THEN error
                    ELSE IF made THEN ErrTempDir ELSE ErrOutputRoot
        /\ trace' = IF fresh THEN trace ELSE [trace EXCEPT !.phase = "setup"]
  /\ UNCHANGED mvars
  /\ UNCHANGED <<plan, dry_run, two_stage, moves_to_apply, order, applied,
                 staged, result, faults, calls, fs0, prev>>

\* One pass of the staging loop: shutil.move(src, tmp_path) into a slot of
\* temp_dir that does not exist yet.
StageMove ==
  /\ pc = "stage"
  /\ idx <= Len(moves_to_apply)
  /\ LET step == StageStep(fs, temp_dir, moves_to_apply[idx])
     IN \E inject \in Injections :
          LET ok == step.ok /\ ~inject
          IN /\ fs' = IF inject THEN fs ELSE step.fs
             /\ staged' = IF ok THEN Append(staged, step.record) ELSE staged
             /\ pc' = IF ok THEN "stage" ELSE "two_rollback"
             /\ idx' = IF ok THEN idx + 1 ELSE Len(staged)
             /\ faults' = IF inject THEN faults - 1 ELSE faults
             /\ trace' = IF ok THEN trace
                         ELSE [trace EXCEPT !.phase = "stage", !.k = idx,
                                            !.injected = inject]
  /\ UNCHANGED mvars
  /\ UNCHANGED <<plan, dry_run, two_stage, moves_to_apply, order, applied,
                 temp_dir, result, error, calls, fs0, prev>>

\* The staging loop is over: the commit loop starts.
StageDone ==
  /\ pc = "stage"
  /\ idx > Len(moves_to_apply)
  /\ pc' = "commit"
  /\ idx' = 1
  /\ UNCHANGED mvars
  /\ UNCHANGED <<fs, plan, dry_run, two_stage, moves_to_apply, order, applied,
                 staged, temp_dir, result, error, faults, calls, fs0, prev, trace>>

\* One pass of the commit loop: mkdir of dst.parent, then
\* shutil.move(tmp_path, dst).
CommitMove ==
  /\ pc = "commit"
  /\ idx <= Len(staged)
  /\ LET rec == staged[idx]
         step == PlaceStep(fs, rec.tmp_path, rec.dst)
     IN \E inject \in (IF step.made THEN Injections ELSE {FALSE}) :
          LET ok == step.ok /\ ~inject
          IN /\ fs' = IF inject THEN step.mid ELSE step.fs
             /\ pc' = IF ok THEN "commit" ELSE "two_rollback"
             /\ idx' = IF ok THEN idx + 1 ELSE Len(staged)
             /\ faults' = IF inject THEN faults - 1 ELSE faults
             /\ trace' = IF ok THEN trace
                         ELSE [trace EXCEPT !.phase = "commit", !.k = idx,
                                            !.injected = inject]
  /\ UNCHANGED mvars
  /\ UNCHANGED <<plan, dry_run, two_stage, moves_to_apply, order, applied,
                 staged, temp_dir, result, error, calls, fs0, prev>>

\* _apply_two_stage, lines 198-217: temp_dir is removed when empty and the
\* result returned.
TwoStageReturn ==
  /\ pc = "commit"
  /\ idx > Len(staged)
  /\ fs' = RemoveIfEmpty(fs, temp_dir)
  /\ pc' = "done"
  /\ result' = Returned(FALSE, AppliedMoves(staged), plan, temp_dir)
  /\ UNCHANGED mvars
  /\ UNCHANGED <<plan, dry_run, two_stage, moves_to_apply, order, idx, applied,
                 staged, temp_dir, error, faults, calls, fs0, prev, trace>>

\* A rollback loop of _apply_two_stage that lets the exception of a rollback
\* move out: the records left are not attempted.
TwoStageRollbackStopsOnFailure ==
  /\ pc = "two_rollback"
  /\ idx >= 1
  /\ LET rec == staged[idx]
         from == IF Exists(fs, rec.tmp_path) THEN rec.tmp_path ELSE rec.dst
         there == Exists(fs, from)
     IN \E inject \in (IF there THEN Injections ELSE {FALSE}) :
          LET ok == there /\ ~inject /\ MoveOk(fs, from, rec.src)
          IN /\ fs' = IF ok THEN Move(fs, from, rec.src) ELSE fs
             /\ faults' = IF inject THEN faults - 1 ELSE faults
             /\ trace' = IF there /\ ~ok
                         THEN [trace EXCEPT !.rollback_failed = TRUE]
                         ELSE trace
             /\ idx' = IF there /\ ~ok THEN 0 ELSE idx - 1
  /\ UNCHANGED mvars
  /\ UNCHANGED <<plan, dry_run, two_stage, pc, moves_to_apply, order, applied,
                 staged, temp_dir, result, error, calls, fs0, prev>>

\* One pass of the rollback loop of _apply_two_stage, over reversed(staged):
\* tmp_path goes back to src if it exists, else dst goes back to src if it
\* exists; an exception is logged.
TwoStageRollback ==
  /\ pc = "two_rollback"
  /\ idx >= 1
  /\ LET rec == staged[idx]
         from == IF Exists(fs, rec.tmp_path) THEN rec.tmp_path ELSE rec.dst
         there == Exists(fs, from)
     IN \E inject \in (IF there THEN Injections ELSE {FALSE}) :
          LET ok == there /\ ~inject /\ MoveOk(fs, from, rec.src)
          IN /\ fs' = IF ok THEN Move(fs, from, rec.src) ELSE fs
             /\ faults' = IF inject THEN faults - 1 ELSE faults
             /\ trace' = IF there /\ ~ok
                         THEN [trace EXCEPT !.rollback_failed = TRUE]
                         ELSE trace
  /\ idx' = idx - 1
  /\ UNCHANGED mvars
  /\ UNCHANGED <<plan, dry_run, two_stage, pc, moves_to_apply, order, applied,
                 staged, temp_dir, result, error, calls, fs0, prev>>

\* _apply_two_stage, line 239: the ApplyError after the rollback loop.
TwoStageRaise ==
  /\ pc = "two_rollback"
  /\ idx = 0
  /\ pc' = "failed"
  /\ error' = ErrApply
  /\ UNCHANGED mvars
  /\ UNCHANGED <<fs, plan, dry_run, two_stage, moves_to_apply, order, idx,
                 applied, staged, temp_dir, result, faults, calls, fs0, prev, trace>>

Next ==
  \/ Call
  \/ SingleStageOrder
  \/ SingleMove
  \/ SingleReturn
  \/ SingleRollback
  \/ SingleRaise
  \/ TwoStageSetup
  \/ StageMove
  \/ StageDone
  \/ CommitMove
  \/ TwoStageReturn
  \/ TwoStageRollback
  \/ TwoStageRaise

Spec == Init /\ [][Next]_vars

\* ------------------------------------- the executors as functions of a tree
\* The loop of _apply_single_stage from position i on, without faults: whether
\* every move went through, and the tree left.
RECURSIVE SingleRun(_, _, _, _)
SingleRun(f, mta, ord, i) ==
  IF i > Len(ord) THEN [ok |-> TRUE, fs |-> f]
  ELSE LET step == PlaceStep(f, mta[ord[i]].src, mta[ord[i]].dst)
       IN IF step.ok THEN SingleRun(step.fs, mta, ord, i + 1)
          ELSE [ok |-> FALSE, fs |-> step.fs]

\* The staging loop of _apply_two_stage from position i on, without faults.
RECURSIVE StageRun(_, _, _, _, _)
StageRun(f, dir, mta, i, recs) ==
  IF i > Len(mta) THEN [ok |-> TRUE, fs |-> f, staged |-> recs]
  ELSE LET step == StageStep(f, dir, mta[i])
       IN IF step.ok
          THEN StageRun(step.fs, dir, mta, i + 1, Append(recs, step.record))
          ELSE [ok |-> FALSE, fs |-> f, staged |-> recs]

\* The commit loop of _apply_two_stage from position i on, without faults.
RECURSIVE CommitRun(_, _, _)
CommitRun(f, recs, i) ==
  IF i > Len(recs) THEN [ok |-> TRUE, fs |-> f]
  ELSE LET step == PlaceStep(f, recs[i].tmp_path, recs[i].dst)
       IN IF step.ok THEN CommitRun(step.fs, recs, i + 1)
          ELSE [ok |-> FALSE, fs |-> step.fs]

\* _apply_two_stage up to its return, without faults: whether it returned, and
\* the tree left when it did.
StagedRun(f, mta, dir) ==
  LET f1 == Mkdir(Mkdir(f, _resolve_path(OutputRoot)), dir)
      st == StageRun(f1, dir, mta, 1, <<>>)
      cm == CommitRun(st.fs, st.staged, 1)
  IN IF ~st.ok THEN [ok |-> FALSE, fs |-> st.fs]
     ELSE IF ~cm.ok THEN cm
     ELSE [ok |-> TRUE, fs |-> RemoveIfEmpty(cm.fs, dir)]

\* ================================================================ monitor
\* The monitor of cli.py: _monitor_loop and the functions it calls, run as a
\* process that may be killed and started again, over a watch root that holds
\* the series directories A and B.  A holds an episode, its subtitle and a
\* skip-listed subdirectory; B holds one episode and arrives while the
\* monitor runs.  Paths of series directories are kept by their names.

\* ------------------------------------------------------- bounds (monitor)
\* The clock stops at MaxTime.
MaxTime == 1
\* How often the monitor process may be killed between two writes of the
\* state file.
MaxCrashes == 1
\* How often it may be killed while it writes the state file.
MaxTorn == 1
\* How many passes of the while loop all runs together may start.
MaxPasses == 3
\* How many files may arrive in a series directory while the monitor runs.
MaxArrivals == 1
\* The --settle-seconds a run is given when it is not 0.
SettleSeconds == 1

\* ---------------------------------------------------------- the watch root
InputRoot == <<"watch">>
Dirs == {"A", "B"}
\* sorted(...) of series directory names.
DirOrder == <<"A", "B">>
Sorted(S) == SelectSeq(DirOrder, LAMBDA d : d \in S)
DirPath(d) == Append(InputRoot, d)

SKIP_DIR_NAMES == {"sample", "trailer", "bonus", "extra", "extras", "sp"}
VIDEO_EXTS == {".mkv"}
SUBTITLE_EXTS == {".ass"}

\* File names in the order of their relative paths.
NameOrder == <<"e1.ass", "e1.mkv", "late.mkv">>

\* The files that may arrive in A while the monitor runs: a second episode,
\* and a file of the skip-listed subdirectory.
LatePath == <<"watch", "A", "late.mkv">>
BonusPath == <<"watch", "A", "extras", "bonus.mkv">>
ArrivalPaths == {LatePath, BonusPath}

\* The content of a series directory when it appears.
DirTree(d) ==
  IF d = "A"
  THEN (DirPath(d) :> DIR) @@ (Append(DirPath(d), "e1.mkv") :> "A/e1.mkv")
       @@ (Append(DirPath(d), "e1.ass") :> "A/e1.ass")
       @@ (Append(DirPath(d), "extras") :> DIR)
  ELSE (DirPath(d) :> DIR) @@ (Append(DirPath(d), "e1.mkv") :> "B/e1.mkv")

WatchTree == (<<>> :> DIR) @@ (InputRoot :> DIR) @@ DirTree("A")

\* ------------------------------------------------------- modification times
\* st_mtime after a change of the tree from f to g at time t: a new entry and
\* a directory whose entries changed carry t.
Touch(m, f, g, t) ==
  [p \in {q \in DOMAIN g : IsPrefix(InputRoot, q)} |->
     IF ~Exists(f, p) \/ p \notin DOMAIN m THEN t
     ELSE IF IsDir(g, p) /\ Children(f, p) # Children(g, p) THEN t
     ELSE m[p]]

Max(S) == CHOOSE x \in S : \A y \in S : y <= x

\* os.walk(path) with the skip-listed subdirectories pruned: the directories
\* visited and the files found in them.
Walked(f, path) ==
  {q \in DOMAIN f :
     /\ IsPrefix(path, q)
     /\ \A k \in (Len(path) + 1)..Len(q) :
          IsDir(f, SubSeq(q, 1, k)) => q[k] \notin SKIP_DIR_NAMES}

\* A _max_tree_mtime that also looks into the skip-listed subdirectories.
MaxTreeMtimeUnpruned(f, m, path) ==
  Max({0} \cup {m[q] : q \in {x \in DOMAIN f : IsPrefix(path, x)}})

\* _max_tree_mtime: the newest st_mtime of the directories and files walked,
\* 0.0 when there are none.
_max_tree_mtime(f, m, path) ==
  Max({0} \cup {m[q] : q \in Walked(f, path)})

\* _discover_series_dirs: the directories right under the input root whose
\* name does not start with a dot.
_discover_series_dirs(f) == {d \in Dirs : IsDir(f, DirPath(d))}

\* ---------------------------------------------------------- monitor state
EmptyState ==
  [baseline |-> {}, pending |-> {}, planned |-> {}, processed |-> {},
   failed |-> {}]

\* The state file: absent, holding the version 3 payload of a state, or
\* holding what an interrupted write left of it.
MissingFile == [origin |-> "missing", state |-> EmptyState]
InvalidFile == [origin |-> "invalid", state |-> EmptyState]
_write_monitor_state(st) == [origin |-> "v3", state |-> st]

\* _load_monitor_state: the state read and its origin; a file that is absent
\* or cannot be parsed gives the empty state.
_load_monitor_state(file) ==
  [state |-> IF file.origin = "v3" THEN file.state ELSE EmptyState,
   origin |-> file.origin]

Tracked(st) == st.pending \cup st.planned \cup st.processed \cup st.failed

\* ---------------------------------------------------------- plan building
\* scan_series_dir: the video and the subtitle files found, each sorted by
\* relative path; videos get the ids 1.., subtitles the ids after them.
ScanNames(f, d, exts) ==
  SelectSeq(NameOrder,
            LAMBDA n : /\ Append(DirPath(d), n) \in Walked(f, DirPath(d))
                       /\ IsFile(f, Append(DirPath(d), n))
                       /\ Suffix(<<n>>) \in exts)

\* The episode the mapping gives a file: e1 is episode 1 and late episode 2.
EpisodeBase(n) == IF n = "late.mkv" THEN "S01E02" ELSE "S01E01"

DstOf(d, n) == OutputRoot \o <<d, "S01", EpisodeBase(n) \o Suffix(<<n>>)>>

\* build_rename_plan: one move per mapped video, and one per subtitle of a
\* mapped episode, sorted by (kind, dst): subtitles come first.
build_rename_plan(f, d) ==
  LET videos == ScanNames(f, d, VIDEO_EXTS)
      subtitles == SelectSeq(ScanNames(f, d, SUBTITLE_EXTS),
                             LAMBDA n : \E i \in 1..Len(videos) :
                                          EpisodeBase(videos[i]) = EpisodeBase(n))
      video_moves == [i \in 1..Len(videos) |->
                        [src |-> Append(DirPath(d), videos[i]),
                         dst |-> DstOf(d, videos[i]),
                         kind |-> "video", src_id |-> i]]
      subtitle_moves == [i \in 1..Len(subtitles) |->
                           [src |-> Append(DirPath(d), subtitles[i]),
                            dst |-> DstOf(d, subtitles[i]),
                            kind |-> "subtitle", src_id |-> Len(videos) + i]]
  IN subtitle_moves \o video_moves

\* _build_plan_from_args: raises when the series directory is not there, when
\* a destination already exists (allow_existing_dest is off), or when TMDB or
\* the language model fail (answered is FALSE).
_build_plan_from_args(f, d, answered) ==
  LET moves == build_rename_plan(f, d)
      ok == /\ IsDir(f, DirPath(d))
            /\ answered
            /\ \A i \in 1..Len(moves) : ~Exists(f, moves[i].dst)
  IN [ok |-> ok, moves |-> IF ok THEN moves ELSE <<>>]

\* ------------------------------------------------------------ plan applying
\* The temp dir of the staged executor: a name not used yet.
FreshTempDir(f) ==
  TempDirOf(Min({c \in 1..(2 * MaxPasses + MaxCrashes + 2) : ~Exists(f, TempDirOf(c))}))

\* apply_rename_plan(plan, dry_run=False, two_stage) as a function of the
\* tree, mta being its moves_to_apply and dir its temp dir: whether it
\* returned, and the tree it leaves.
RunPlan(f, moves, mta, two, dir) ==
  IF ValidationError(f, moves) # NoError THEN [ok |-> FALSE, fs |-> f]
  ELSE IF mta = <<>> THEN [ok |-> TRUE, fs |-> f]
  ELSE IF two THEN StagedRun(f, mta, dir)
  ELSE IF CycleDetected(mta) THEN [ok |-> FALSE, fs |-> f]
  ELSE SingleRun(f, mta, _single_stage_order(mta), 1)

\* _do_apply_from_plan(plan, dry_run=False, two_stage): the outcome of
\* apply_rename_plan, and the rollback moves written when it returned.
_do_apply_from_plan(f, moves, two) ==
  [run |-> RunPlan(f, moves, MovesToApply(moves), two, FreshTempDir(f)),
   rollback |-> build_rollback_moves(moves)]

\* The trees a kill of the process may leave while apply_rename_plan runs:
\* the single-stage executor has done some of its moves, the staged one has
\* staged all of them and committed none.
Interrupted(f, moves, mta, two, dir, ord) ==
  IF ValidationError(f, moves) # NoError \/ mta = <<>> THEN {f}
  ELSE IF two
  THEN {StageRun(Mkdir(Mkdir(f, _resolve_path(OutputRoot)), dir), dir, mta, 1,
                 <<>>).fs}
  ELSE {SingleRun(f, mta, SubSeq(ord, 1, k), 1).fs : k \in 0..Len(ord)}

KilledTrees(f, moves, two) ==
  Interrupted(f, moves, MovesToApply(moves), two, FreshTempDir(f),
              _single_stage_order(MovesToApply(moves)))

\* ------------------------------------------------------ monitor: the state
\* The plan file and the rollback file of a series directory: whether each is
\* there, and the moves it holds.
NoFiles == [has_plan |-> FALSE, plan |-> <<>>, has_rollback |-> FALSE,
            rollback |-> <<>>]
NoDir == "none"
NoPass == [unsettled |-> {}, raised |-> {}, visited |-> {}, listed |-> {}]
NoEver ==
  [baseline |-> {}, pending |-> {}, planned |-> {}, processed |-> {},
   failed |-> {}, built |-> {}, applied |-> {}, interrupted |-> {},
   in_doubt |-> {}, changed |-> {}, torn |-> FALSE, edited |-> FALSE]

\* The apply engine's own variables while the monitor runs it as a function.
aframe == <<plan, dry_run, two_stage, pc, moves_to_apply, order, idx, applied,
            staged, temp_dir, result, error, faults, calls, fs0, prev, trace>>

ApplyIdle ==
  /\ plan = <<>>
  /\ dry_run = FALSE
  /\ two_stage = FALSE
  /\ pc = "idle"
  /\ moves_to_apply = <<>>
  /\ order = <<>>
  /\ idx = 0
  /\ applied = <<>>
  /\ staged = <<>>
  /\ temp_dir = None
  /\ result = NoResult
  /\ error = NoError
  /\ faults = 0
  /\ calls = 0
  /\ fs0 = WatchTree
  /\ prev = NoPrev
  /\ trace = NoTrace

\* The command lines: monitor <input_root> --out <out> with or without
\* --apply, --once, --include-existing and --two-stage, and with
\* --settle-seconds 0 or SettleSeconds (the staged executor is asked for in
\* the runs without a settle window).
Args ==
  {a \in [apply : BOOLEAN, once : BOOLEAN, include_existing : BOOLEAN,
           two_stage : BOOLEAN, settle_seconds : {0, SettleSeconds}] :
     a.two_stage => a.settle_seconds = 0}

MonitorInit ==
  /\ fs = WatchTree
  /\ ApplyIdle
  /\ state_file = MissingFile
  /\ state = EmptyState
  /\ plan_files = [d \in Dirs |-> NoFiles]
  /\ mpc = "stopped"
  /\ queue = <<>>
  /\ current_dirs = {}
  /\ baseline_bootstrapped = FALSE
  /\ args \in {a \in Args : ~a.apply}
  /\ now = 0
  /\ mtime = [p \in {q \in DOMAIN WatchTree : IsPrefix(InputRoot, q)} |-> 0]
  /\ rc = "none"
  /\ shutdown_requested = FALSE
  /\ budget = [passes |-> MaxPasses, crashes |-> MaxCrashes, torn |-> MaxTorn,
               arrivals |-> MaxArrivals]
  /\ last = [op |-> "init", dir |-> NoDir]
  /\ pass = NoPass
  /\ ever = NoEver

\* What the state file has recorded so far, the file at hand included.
Noted(e, file) ==
  [e EXCEPT !.baseline = @ \cup file.state.baseline,
            !.pending = @ \cup file.state.pending,
            !.planned = @ \cup file.state.planned,
            !.processed = @ \cup file.state.processed,
            !.failed = @ \cup file.state.failed,
            !.torn = @ \/ file.origin = "invalid"]

\* How a step that writes the state file may end: the write goes through, or
\* the process is killed while the file is open for writing.
Fates == IF budget.torn > 0 THEN {"ok", "torn"} ELSE {"ok"}
\* A step that runs the apply engine may also be killed before it writes.
ApplyFates == Fates \cup (IF budget.crashes > 0 THEN {"killed"} ELSE {})

\* The memory of the process after the step: gone with the process.
Memory(alive, st, next_pc, next_queue) ==
  /\ state' = IF alive THEN st ELSE EmptyState
  /\ mpc' = IF alive THEN next_pc ELSE "stopped"
  /\ queue' = IF alive THEN next_queue ELSE <<>>
  /\ current_dirs' = IF alive THEN current_dirs ELSE {}
  /\ baseline_bootstrapped' = (alive /\ baseline_bootstrapped)
  /\ shutdown_requested' = (alive /\ shutdown_requested)

\* _write_monitor_state(state_file, st) as the step's last call: path.open("w")
\* truncates the file and json.dump fills it, so a process killed in between
\* leaves a file that does not parse.  The step then goes on at next_pc with
\* next_queue left to walk, or the process is gone.
Persist(fate, st, next_pc, next_queue, e) ==
  /\ state_file' = CASE fate = "ok" -> _write_monitor_state(st)
                     [] fate = "torn" -> InvalidFile
                     [] OTHER -> state_file
  /\ Memory(fate = "ok", st, next_pc, next_queue)
  /\ budget' = CASE fate = "ok" -> budget
                 [] fate = "torn" -> [budget EXCEPT !.torn = @ - 1]
                 [] OTHER -> [budget EXCEPT !.crashes = @ - 1]
  /\ rc' = IF fate = "ok" THEN rc ELSE "killed"
  /\ ever' = Noted([e EXCEPT !.interrupted =
                      IF fate = "ok" THEN @ ELSE @ \cup state_file.state.planned],
                   state_file')

\* A step that writes nothing and goes on.
GoOn(st, next_pc, next_queue) ==
  /\ Memory(TRUE, st, next_pc, next_queue)
  /\ UNCHANGED <<state_file, budget, rc, ever>>

\* ---------------------------------------------------- monitor: the actions
\* A shutdown_check that never sees the flag.
ShutdownIgnored(flag) == FALSE

\* shutdown_check: lambda: shutdown_requested.
shutdown_check(flag) == flag

\* main: a monitor process is started; --apply may differ from run to run.
Run ==
  /\ mpc = "stopped"
  /\ budget.passes > 0
  /\ \E a \in BOOLEAN : args' = [args EXCEPT !.apply = a]
  /\ mpc' = "load"
  /\ rc' = "none"
  /\ shutdown_requested' = FALSE
  /\ pass' = NoPass
  /\ last' = [op |-> "run", dir |-> NoDir]
  /\ UNCHANGED <<fs, aframe, state_file, state, plan_files, queue,
                 current_dirs, baseline_bootstrapped, now, mtime, budget, ever>>

\* A loop that never takes the baseline bootstrap.
NeverBootstrap(origin) == FALSE

\* Lines 903-907: whether the pass is the baseline bootstrap.
IsBootstrap(origin) ==
  /\ ~args.include_existing
  /\ ~baseline_bootstrapped
  /\ origin \in {"missing", "v1", "invalid"}

\* Lines 894-901, a pass that is not the bootstrap: the state is loaded and
\* the series directories are discovered.
Load ==
  /\ mpc = "load"
  /\ ~shutdown_check(shutdown_requested)
  /\ budget.passes > 0
  /\ LET loaded == _load_monitor_state(state_file)
     IN /\ ~IsBootstrap(loaded.origin)
        /\ state' = loaded.state
  /\ current_dirs' = _discover_series_dirs(fs)
  /\ mpc' = "discover"
  /\ budget' = [budget EXCEPT !.passes = @ - 1]
  /\ pass' = NoPass
  /\ last' = [op |-> "load", dir |-> NoDir]
  /\ UNCHANGED <<fs, aframe, state_file, plan_files, queue,
                 baseline_bootstrapped, args, now, mtime, rc,
                 shutdown_requested, ever>>

\* Lines 903-930: the baseline bootstrap; with --once the run ends after it,
\* otherwise the monitor sleeps and starts the next pass.
Bootstrap ==
  /\ mpc = "load"
  /\ ~shutdown_check(shutdown_requested)
  /\ budget.passes > 0
  /\ LET loaded == _load_monitor_state(state_file)
         st == [baseline |-> _discover_series_dirs(fs) \ loaded.state.processed,
                pending |-> {}, planned |-> {},
                processed |-> loaded.state.processed,
                failed |-> loaded.state.failed]
     IN /\ IsBootstrap(loaded.origin)
        /\ \E fate \in Fates :
             /\ state_file' = IF fate = "ok" THEN _write_monitor_state(st)
                              ELSE InvalidFile
             /\ mpc' = IF fate = "ok" /\ ~args.once THEN "load" ELSE "stopped"
             /\ rc' = IF fate # "ok" THEN "killed"
                      ELSE IF args.once THEN "0" ELSE rc
             /\ budget' = [budget EXCEPT
                             !.passes = @ - 1,
                             !.torn = IF fate = "ok" THEN @ ELSE @ - 1]
             /\ baseline_bootstrapped' = (fate = "ok" /\ ~args.once)
             /\ shutdown_requested' =
                  (fate = "ok" /\ ~args.once /\ shutdown_requested)
  /\ ever' = Noted(ever, state_file')
  /\ pass' = NoPass
  /\ last' = [op |-> "bootstrap", dir |-> NoDir]
  /\ UNCHANGED <<fs, aframe, state, plan_files, queue, current_dirs, args, now,
                 mtime>>

\* A pass that leaves the failed entries where they are.
NoCleanup(st) == st

\* Lines 932-940: failed entries leave pending and planned.
FailedCleanup(st) ==
  [st EXCEPT !.pending = @ \ st.failed, !.planned = @ \ st.failed]

\* Lines 932-963: failed entries leave pending and planned, and the
\* directories not seen before become pending; the state is written if either
\* changed it.  Then the loop over sorted(state.planned) starts under --apply,
\* and the loop over sorted(state.pending) otherwise.
Discover ==
  /\ mpc = "discover"
  /\ LET cleaned == FailedCleanup(state)
         fresh == {d \in current_dirs :
                     /\ d \notin cleaned.processed
                     /\ d \notin cleaned.failed
                     /\ (args.include_existing \/ d \notin cleaned.baseline)
                     /\ d \notin cleaned.planned \cup cleaned.pending}
         st == [cleaned EXCEPT !.pending = @ \cup fresh]
         next_pc == IF args.apply THEN "planned" ELSE "pending"
         next_queue == IF args.apply THEN Sorted(st.planned)
                       ELSE Sorted(st.pending)
     IN /\ IF st # state
           THEN \E fate \in Fates : Persist(fate, st, next_pc, next_queue, ever)
           ELSE GoOn(st, next_pc, next_queue)
        /\ pass' = [pass EXCEPT !.listed = IF args.apply THEN st.planned
                                           ELSE st.pending]
  /\ last' = [op |-> "discover", dir |-> NoDir]
  /\ UNCHANGED <<fs, aframe, plan_files, args, now, mtime>>

\* An except clause that leaves the loop.
AbortLoop(q) == <<>>

\* What is left of the loop after the except clause: continue.
AfterFailure(q) == Tail(q)

\* The state after the try block that applied the plan of d: d goes from
\* planned to processed, or to failed when anything raised.
Recorded(st, d, ok) ==
  IF ok THEN [st EXCEPT !.planned = @ \ {d}, !.processed = @ \cup {d}]
  ELSE [st EXCEPT !.pending = @ \ {d}, !.planned = @ \ {d},
                  !.failed = @ \cup {d}]

\* The try block that applies the plan of d (lines 977-1002 and 1059-1085),
\* res being what _do_apply_from_plan does on the tree at hand and killed the
\* trees it may leave when the process is killed meanwhile: the plan is
\* applied and the rollback plan written, then the state is recorded.  A
\* process killed after the engine ran writes neither.
ApplyAndRecord(d, res, killed, next_pc) ==
  \E fate \in ApplyFates :
    /\ IF fate = "killed"
       THEN /\ fs' \in killed \cup {res.run.fs}
            /\ plan_files' = plan_files
       ELSE /\ fs' = res.run.fs
            /\ plan_files' = IF res.run.ok
                             THEN [plan_files EXCEPT
                                     ![d].has_rollback = TRUE,
                                     ![d].rollback = res.rollback]
                             ELSE plan_files
    /\ mtime' = Touch(mtime, fs, fs', now)
    /\ Persist(fate, Recorded(state, d, res.run.ok), next_pc,
               IF res.run.ok THEN Tail(queue) ELSE AfterFailure(queue),
               [ever EXCEPT !.applied = IF res.run.ok /\ fate # "killed"
                                        THEN @ \cup {d} ELSE @,
                            !.in_doubt = IF fate # "ok" /\ fs' # fs
                                         THEN @ \cup {d} ELSE @])
    /\ last' = [op |-> CASE fate = "killed" -> "apply_killed"
                         [] res.run.ok -> "apply_ok"
                         [] OTHER -> "apply_failed",
                dir |-> d]
    /\ pass' = [pass EXCEPT !.visited = @ \cup {d},
                            !.raised = IF res.run.ok \/ fate = "killed" THEN @
                                       ELSE @ \cup {d}]

\* read_rename_plan_json raises when the plan file is not there.
Unreadable == [run |-> [ok |-> FALSE, fs |-> fs], rollback |-> <<>>]

\* Lines 966-1002: one pass of the loop over sorted(state.planned).
ApplyPlanned ==
  /\ mpc = "planned"
  /\ queue # <<>>
  /\ LET d == Head(queue)
     IN IF d \in state.failed
        THEN /\ \E fate \in Fates :
                  Persist(fate, [state EXCEPT !.planned = @ \ {d}], "planned",
                          Tail(queue), ever)
             /\ last' = [op |-> "skip_failed", dir |-> d]
             /\ pass' = [pass EXCEPT !.visited = @ \cup {d}]
             /\ UNCHANGED <<fs, plan_files, mtime>>
        ELSE IF plan_files[d].has_plan
        THEN ApplyAndRecord(d,
               _do_apply_from_plan(fs, plan_files[d].plan, args.two_stage),
               KilledTrees(fs, plan_files[d].plan, args.two_stage), "planned")
        ELSE ApplyAndRecord(d, Unreadable, {}, "planned")
  /\ UNCHANGED <<aframe, args, now>>

\* Line 1004: the loop over sorted(state.planned) is over, the loop over
\* sorted(state.pending) starts.
PlannedDone ==
  /\ mpc = "planned"
  /\ queue = <<>>
  /\ mpc' = "pending"
  /\ queue' = Sorted(state.pending)
  /\ pass' = [pass EXCEPT !.listed = @ \cup state.pending]
  /\ last' = [op |-> "planned_done", dir |-> NoDir]
  /\ UNCHANGED <<fs, aframe, state_file, state, plan_files, current_dirs,
                 baseline_bootstrapped, args, now, mtime, rc,
                 shutdown_requested, budget, ever>>

\* A comparison that lets a directory through while it is still changing.
NotSettledNever(age_seconds, settle_seconds) == FALSE

\* Lines 1012-1016: age_seconds < args.settle_seconds.
NotSettled(age_seconds, settle_seconds) ==
  settle_seconds > 0 /\ age_seconds < settle_seconds

\* A promotion that leaves the directory where it was.
StaysPending(st, d) == st

\* Lines 1054-1055: the directory goes from pending to planned.
Promoted(st, d) ==
  [st EXCEPT !.pending = @ \ {d}, !.planned = @ \cup {d}]

\* Lines 1004-1057 and 1074-1085: one pass of the loop over
\* sorted(state.pending) up to the point where the plan is applied.  A pending
\* directory that is failed, not under the input root or not settled is
\* passed over; for the others the plan is built and written and the
\* directory goes from pending to planned, or to failed when the builder
\* raised.  Under --apply the same pass of the loop goes on applying the plan.
PendingStep ==
  /\ mpc = "pending"
  /\ queue # <<>>
  /\ LET d == Head(queue)
         max_mtime == _max_tree_mtime(fs, mtime, DirPath(d))
         age_seconds == IF now > max_mtime THEN now - max_mtime ELSE 0
     IN IF d \in state.failed
        THEN /\ \E fate \in Fates :
                  Persist(fate, [state EXCEPT !.pending = @ \ {d}], "pending",
                          Tail(queue), ever)
             /\ last' = [op |-> "skip_failed", dir |-> d]
             /\ pass' = [pass EXCEPT !.visited = @ \cup {d}]
             /\ UNCHANGED plan_files
        ELSE IF d \notin current_dirs
        THEN /\ GoOn(state, "pending", Tail(queue))
             /\ last' = [op |-> "skip_absent", dir |-> d]
             /\ pass' = [pass EXCEPT !.visited = @ \cup {d}]
             /\ UNCHANGED plan_files
        ELSE IF NotSettled(age_seconds, args.settle_seconds)
        THEN /\ GoOn(state, "pending", Tail(queue))
             /\ last' = [op |-> "unsettled", dir |-> d]
             /\ pass' = [pass EXCEPT !.visited = @ \cup {d},
                                     !.unsettled = @ \cup {d}]
             /\ UNCHANGED plan_files
        ELSE \E answered \in BOOLEAN :
               LET built == _build_plan_from_args(fs, d, answered)
               IN IF built.ok
                  THEN /\ plan_files' = [plan_files EXCEPT
                                           ![d].has_plan = TRUE,
                                           ![d].plan = built.moves]
                       /\ \E fate \in Fates :
                            Persist(fate, Promoted(state, d),
                                    IF args.apply THEN "promote" ELSE "pending",
                                    IF args.apply THEN queue ELSE Tail(queue),
                                    [ever EXCEPT !.built = @ \cup {d}])
                       /\ last' = [op |-> "build_ok", dir |-> d]
                       /\ pass' = [pass EXCEPT !.visited = @ \cup {d}]
                  ELSE /\ plan_files' = plan_files
                       /\ \E fate \in Fates :
                            Persist(fate,
                                    [state EXCEPT !.pending = @ \ {d},
                                                  !.planned = @ \ {d},
                                                  !.failed = @ \cup {d}],
                                    "pending", AfterFailure(queue),
                                    [ever EXCEPT !.built = @ \cup {d}])
                       /\ last' = [op |-> "build_failed", dir |-> d]
                       /\ pass' = [pass EXCEPT !.visited = @ \cup {d},
                                               !.raised = @ \cup {d}]
  /\ UNCHANGED <<fs, aframe, args, now, mtime>>

\* Lines 1059-1085: under --apply the plan just built for the directory at
\* the head of the loop is applied in the same pass of the loop.
PromoteApply ==
  /\ mpc = "promote"
  /\ ApplyAndRecord(Head(queue),
       _do_apply_from_plan(fs, plan_files[Head(queue)].plan, args.two_stage),
       KilledTrees(fs, plan_files[Head(queue)].plan, args.two_stage),
       "pending")
  /\ UNCHANGED <<aframe, args, now>>

\* Lines 1087-1099 and 893: the pass is over.  With --once, or when the
\* shutdown flag is set, the loop is left and the monitor returns 0;
\* otherwise the monitor sleeps before the next pass.
PassEnd ==
  /\ mpc = "pending"
  /\ queue = <<>>
  /\ Memory(~args.once /\ ~shutdown_check(shutdown_requested), EmptyState,
            "load", <<>>)
  /\ rc' = IF args.once \/ shutdown_check(shutdown_requested) THEN "0" ELSE rc
  /\ last' = [op |-> "pass_end", dir |-> NoDir]
  /\ UNCHANGED <<fs, aframe, state_file, plan_files, args, now, mtime, budget,
                 pass, ever>>

\* The process is killed between two steps.
Crash ==
  /\ mpc # "stopped"
  /\ budget.crashes > 0
  /\ Memory(FALSE, EmptyState, "stopped", <<>>)
  /\ rc' = "killed"
  /\ budget' = [budget EXCEPT !.crashes = @ - 1]
  /\ ever' = [ever EXCEPT !.interrupted = @ \cup state_file.state.planned]
  /\ last' = [op |-> "crash", dir |-> NoDir]
  /\ pass' = NoPass
  /\ UNCHANGED <<fs, aframe, state_file, plan_files, args, now, mtime>>

\* The environment's steps are taken while a monitor process exists: it is
\* the first to look at what they leave, and a step before it started is
\* one that comes right after its start.

\* time.time() advances (the clock is read under --settle-seconds only).
Tick ==
  /\ mpc # "stopped"
  /\ now < MaxTime
  /\ args.settle_seconds > 0
  /\ now' = now + 1
  /\ UNCHANGED <<fs, aframe, state_file, state, plan_files, mpc, queue,
                 current_dirs, baseline_bootstrapped, args, mtime, rc,
                 shutdown_requested, budget, last, pass, ever>>

\* The series directory B appears under the input root.
ArriveDir ==
  /\ mpc # "stopped"
  /\ ~Exists(fs, DirPath("B"))
  /\ fs' = fs @@ DirTree("B")
  /\ mtime' = Touch(mtime, fs, fs', now)
  /\ UNCHANGED <<aframe, state_file, state, plan_files, mpc, queue,
                 current_dirs, baseline_bootstrapped, args, now, rc,
                 shutdown_requested, budget, last, pass, ever>>

\* A file arrives in the series directory A (one in the skip-listed
\* subdirectory is seen by _max_tree_mtime only, so under --settle-seconds).
Arrive ==
  /\ mpc # "stopped"
  /\ budget.arrivals > 0
  /\ \E p \in ArrivalPaths :
       /\ p = BonusPath => args.settle_seconds > 0
       /\ ~Exists(fs, p)
       /\ IsDir(fs, Parent(p))
       /\ fs' = fs @@ (p :> "A/" \o Last(p))
       /\ ever' = [ever EXCEPT !.changed =
                     IF p = LatePath /\ "A" \in state_file.state.planned
                     THEN @ \cup {"A"} ELSE @]
  /\ mtime' = Touch(mtime, fs, fs', now)
  /\ budget' = [budget EXCEPT !.arrivals = @ - 1]
  /\ UNCHANGED <<aframe, state_file, state, plan_files, mpc, queue,
                 current_dirs, baseline_bootstrapped, args, now, rc,
                 shutdown_requested, last, pass>>

\* SIGTERM or SIGINT is delivered: _handle_shutdown_signal sets the flag and
\* the process goes on with what it was doing.
Signal ==
  /\ mpc # "stopped"
  /\ ~shutdown_requested
  /\ shutdown_requested' = TRUE
  /\ UNCHANGED <<fs, aframe, state_file, state, plan_files, mpc, queue,
                 current_dirs, baseline_bootstrapped, args, now, mtime, rc,
                 budget, last, pass, ever>>

\* Lines 893 and 1097-1099: the flag is seen at the top of a pass (or by the
\* sleep before it); the loop is left and the monitor returns 0.
Shutdown ==
  /\ mpc = "load"
  /\ shutdown_check(shutdown_requested)
  /\ Memory(FALSE, EmptyState, "stopped", <<>>)
  /\ rc' = "0"
  /\ last' = [op |-> "shutdown", dir |-> NoDir]
  /\ UNCHANGED <<fs, aframe, state_file, plan_files, args, now, mtime, budget,
                 pass, ever>>

MonitorNext ==
  \/ Run
  \/ Load
  \/ Bootstrap
  \/ Discover
  \/ ApplyPlanned
  \/ PlannedDone
  \/ PendingStep
  \/ PromoteApply
  \/ PassEnd
  \/ Crash
  \/ Tick
  \/ ArriveDir
  \/ Arrive
  \/ Signal
  \/ Shutdown

MonitorSpec == MonitorInit /\ [][MonitorNext]_vars

\* ============================================================== scheduler
\* _single_stage_order on its own, applied to the batches of up to MaxBatch
\* (move, src, dst) triples with src # dst over four paths, as
\* apply_rename_plan's filter leaves them; the sources of a batch need not be
\* distinct.
MaxBatch == 3

BatchPaths == {PathA, PathB, PathC, PathS}

Triples ==
  {[move |-> PlannedMove(s, d), src |-> s, dst |-> d] :
     s \in BatchPaths, d \in BatchPaths} \ 
  {[move |-> PlannedMove(s, s), src |-> s, dst |-> s] : s \in BatchPaths}

Batches == UNION {[1..n -> Triples] : n \in 0..MaxBatch}

\* _apply_single_stage is entered with a batch and calls the scheduler.
SchedulerInit ==
  /\ fs = OutTree @@ (PathS :> "s")
  /\ plan = <<>>
  /\ dry_run = FALSE
  /\ two_stage = FALSE
  /\ pc = "single_stage"
  /\ moves_to_apply \in Batches
  /\ order = <<>>
  /\ idx = 0
  /\ applied = <<>>
  /\ staged = <<>>
  /\ temp_dir = None
  /\ result = NoResult
  /\ error = NoError
  /\ faults = 0
  /\ calls = 1
  /\ fs0 = fs
  /\ prev = NoPrev
  /\ trace = NoTrace
  /\ state_file = MissingFile
  /\ state = EmptyState
  /\ plan_files = <<>>
  /\ mpc = "stopped"
  /\ queue = <<>>
  /\ current_dirs = {}
  /\ baseline_bootstrapped = FALSE
  /\ args = <<>>
  /\ now = 0
  /\ mtime = <<>>
  /\ rc = "none"
  /\ shutdown_requested = FALSE
  /\ budget = <<>>
  /\ last = [op |-> "init", dir |-> NoDir]
  /\ pass = <<>>
  /\ ever = <<>>

SchedulerNext == SingleStageOrder

SchedulerSpec == SchedulerInit /\ [][SchedulerNext]_vars

\* ==================================================== single-stage executor
\* apply_rename_plan(plan, dry_run=False, two_stage=False) on the plans of up
\* to MaxSingleMoves moves that keep the RenamePlan invariants (no two moves
\* share a resolved src or a resolved dst).
MaxSingleMoves == 3

SinglePlans ==
  UNION {{p \in [1..n -> AllMoves] :
            /\ Cardinality({_resolve_path(p[i].src) : i \in 1..n}) = n
            /\ Cardinality({_resolve_path(p[i].dst) : i \in 1..n}) = n} :
         n \in 0..MaxSingleMoves}

SingleStageInit ==
  /\ fs \in InitialTrees
  /\ plan \in SinglePlans
  /\ dry_run = FALSE
  /\ two_stage = FALSE
  /\ pc = "idle"
  /\ moves_to_apply = <<>>
  /\ order = <<>>
  /\ idx = 0
  /\ applied = <<>>
  /\ staged = <<>>
  /\ temp_dir = None
  /\ result = NoResult
  /\ error = NoError
  /\ faults = MaxFaults
  /\ calls = 0
  /\ fs0 = fs
  /\ prev = NoPrev
  /\ trace = NoTrace
  /\ state_file = MissingFile
  /\ state = EmptyState
  /\ plan_files = <<>>
  /\ mpc = "stopped"
  /\ queue = <<>>
  /\ current_dirs = {}
  /\ baseline_bootstrapped = FALSE
  /\ args = <<>>
  /\ now = 0
  /\ mtime = <<>>
  /\ rc = "none"
  /\ shutdown_requested = FALSE
  /\ budget = <<>>
  /\ last = [op |-> "init", dir |-> NoDir]
  /\ pass = <<>>
  /\ ever = <<>>

\* The one call made: a single-stage apply of the plan at hand.
SingleCall ==
  /\ calls = 0
  /\ apply_rename_plan(plan, FALSE, FALSE)

SingleStageNext ==
  \/ SingleCall
  \/ SingleStageOrder
  \/ SingleMove
  \/ SingleReturn
  \/ SingleRollback
  \/ SingleRaise

SingleStageSpec == SingleStageInit /\ [][SingleStageNext]_vars

\* ================================================== an edited state file
\* The monitor as above, started either as above or, for one pass, on a state
\* file that was edited by hand and lists a failed directory as pending or as
\* planned.
EditedStates ==
  {st \in [baseline : {{}}, pending : SUBSET Dirs, planned : SUBSET Dirs,
           processed : {{}}, failed : SUBSET Dirs] :
     st.failed \cap (st.pending \cup st.planned) # {}}

EditedInit ==
  /\ fs = WatchTree
  /\ ApplyIdle
  /\ state_file \in {[origin |-> "v3", state |-> st] : st \in EditedStates}
  /\ state = EmptyState
  /\ plan_files = [d \in Dirs |-> NoFiles]
  /\ mpc = "stopped"
  /\ queue = <<>>
  /\ current_dirs = {}
  /\ baseline_bootstrapped = FALSE
  /\ args \in {a \in Args : ~a.apply}
  /\ now = 0
  /\ mtime = [p \in {q \in DOMAIN WatchTree : IsPrefix(InputRoot, q)} |-> 0]
  /\ rc = "none"
  /\ shutdown_requested = FALSE
  /\ budget = [passes |-> 1, crashes |-> 0, torn |-> 0,
               arrivals |-> MaxArrivals]
  /\ last = [op |-> "init", dir |-> NoDir]
  /\ pass = NoPass
  /\ ever = [Noted(NoEver, state_file) EXCEPT !.edited = TRUE]

EditedSpec == (MonitorInit \/ EditedInit) /\ [][MonitorNext]_vars

\* ======================================================== state file format
\* _write_monitor_state and _load_monitor_state on the JSON documents
\* themselves.  A document is its "version" and its lists by key; the file is
\* absent or holds a document.  The monitor model above keeps of a file only
\* what the loader makes of it.
StateKeys == {"baseline", "pending", "planned", "processed", "failed"}

\* A writer that leaves the failed set out of the document.
PayloadWithoutFailed(st) ==
  [version |-> 3,
   lists |-> [k \in StateKeys \ {"failed"} |-> Sorted(st[k])]]

\* Lines 531-538: the payload of a state.
Payload(st) ==
  [version |-> 3, lists |-> [k \in StateKeys |-> Sorted(st[k])]]

NoDocument == [exists |-> FALSE, data |-> <<>>]
Document(data) == [exists |-> TRUE, data |-> data]

\* _load_state_list, for a key the document has: set(value).
_load_state_list(data, field) ==
  {data.lists[field][i] : i \in 1..Len(data.lists[field])}

\* The keys the branch of the loader for a version reads with
\* _load_state_list, which raises ValueError for a key that is not there.
KeysRead(version) ==
  CASE version = 1 -> {"processed"}
    [] version = 2 -> StateKeys \ {"failed"}
    [] version = 3 -> StateKeys
    [] OTHER -> {}

\* Lines 469-527 on a document.
LoadDocument(file) ==
  IF ~file.exists
    THEN [state |-> EmptyState, origin |-> "missing"]
    ELSE IF /\ file.data.version \in {1, 2, 3}
            /\ KeysRead(file.data.version) \subseteq DOMAIN file.data.lists
           THEN [state |->
                   [k \in StateKeys |->
                      IF k \in KeysRead(file.data.version)
                        THEN _load_state_list(file.data, k)
                        ELSE {}],
                 origin |-> CASE file.data.version = 1 -> "v1"
                              [] file.data.version = 2 -> "v2"
                              [] file.data.version = 3 -> "v3"]
           ELSE [state |-> EmptyState, origin |-> "invalid"]

\* The lists a document may hold: the sorted ones a writer emits, and one out
\* of order and one with a repetition.
StateLists == {Sorted(S) : S \in SUBSET Dirs} \cup {<<"B", "A">>, <<"A", "A">>}

\* The documents: of the versions 1, 2 and 3 with the keys of the version, of
\* the version 2 without its "planned", and of the versions 0 and 4.
Documents ==
  UNION {{[version |-> v, lists |-> l] : l \in [KeysRead(v) -> StateLists]} :
           v \in {1, 2, 3}}
  \cup {[version |-> 2, lists |-> l] :
          l \in [{"baseline", "pending", "processed"} -> StateLists]}
  \cup {[version |-> v, lists |-> [k \in StateKeys |-> <<>>]] : v \in {0, 4}}

MonitorStates == [StateKeys -> SUBSET Dirs]

\* A state in memory and no file, or a file and nothing in memory yet.
StateFileInit ==
  /\ \/ state \in MonitorStates /\ state_file = NoDocument
     \/ state = EmptyState /\ state_file \in {Document(d) : d \in Documents}
  /\ fs = OutTree
  /\ ApplyIdle
  /\ plan_files = <<>>
  /\ mpc = "stopped"
  /\ queue = <<>>
  /\ current_dirs = {}
  /\ baseline_bootstrapped = FALSE
  /\ args = <<>>
  /\ now = 0
  /\ mtime = <<>>
  /\ rc = "none"
  /\ shutdown_requested = FALSE
  /\ budget = <<>>
  /\ last = [op |-> "init", dir |-> NoDir]
  /\ pass = <<>>
  /\ ever = <<>>

\* _write_monitor_state(state_file, state).
WriteState ==
  /\ last.op # "write"
  /\ state_file' = Document(Payload(state))
  /\ last' = [op |-> "write", dir |-> NoDir]
  /\ UNCHANGED <<avars, state, plan_files, mpc, queue, current_dirs,
                 baseline_bootstrapped, args, now, mtime, rc,
                 shutdown_requested, budget, pass, ever>>

\* state, state_origin = _load_monitor_state(state_file).
LoadState ==
  /\ last.op # "load"
  /\ state' = LoadDocument(state_file).state
  /\ last' = [op |-> "load", dir |-> NoDir]
  /\ UNCHANGED <<avars, state_file, plan_files, mpc, queue, current_dirs,
                 baseline_bootstrapped, args, now, mtime, rc,
                 shutdown_requested, budget, pass, ever>>

StateFileNext == WriteState \/ LoadState

StateFileSpec == StateFileInit /\ [][StateFileNext]_vars

\* ------------------------------------------------ vocabulary of the claims
Srcs(moves) == {_resolve_path(moves[i].src) : i \in 1..Len(moves)}

Dsts(moves) == {_resolve_path(moves[i].dst) : i \in 1..Len(moves)}

\* The RenamePlan invariants: every resolved src is the src of one move only,
\* and no two moves share a resolved dst.
UniqueSources(moves) == Cardinality(Srcs(moves)) = Len(moves)

UniqueDestinations(moves) == Cardinality(Dsts(moves)) = Len(moves)

WellFormed(moves) == UniqueSources(moves) /\ UniqueDestinations(moves)

\* The batch's dependency graph (move i waits for the move whose src is i's
\* dst) has a cycle: a non-empty set of moves each waiting for another of them.
HasCycle(mta) ==
  \E C \in SUBSET (1..Len(mta)) :
    /\ C # {}
    /\ \A i \in C : \E j \in C : j # i /\ mta[j].src = mta[i].dst

\* The call at hand is over: it returned or it raised.
Finished == calls > 0 /\ pc \in {"done", "failed"}

ValidationErrors == {ErrSource, ErrParent, ErrDestination}

StagingDirs == {TempDirOf(c) : c \in 1..MaxCalls}

\* ---------------------------------------------------------------------- C1
\* C1: when the k-th commit move of the staged executor raises (and no move of
\* the rollback loop raises), every file of the batch is back at its source
\* path with the content it had before the call, and no file remains at a
\* destination that is not itself a source.
C1_StagedFailureAtomicity ==
  (/\ pc = "failed"
   /\ two_stage
   /\ trace.phase = "commit"
   /\ ~trace.rollback_failed
   /\ WellFormed(plan))
  => /\ \A i \in 1..Len(moves_to_apply) :
          /\ IsFile(fs, moves_to_apply[i].src)
          /\ fs[moves_to_apply[i].src] = fs0[moves_to_apply[i].src]
     /\ \A i \in 1..Len(moves_to_apply) :
          moves_to_apply[i].dst \notin Srcs(plan)
            => ~IsFile(fs, moves_to_apply[i].dst)

\* ---------------------------------------------------------------------- C2
\* The call at hand applies the rollback moves the previous, non-dry-run call
\* returned, in the same mode, and no move was made to raise.
IsRoundTrip ==
  /\ prev.valid
  /\ ~prev.dry_run
  /\ ~dry_run
  /\ two_stage = prev.two_stage
  /\ plan = build_rollback_moves(prev.plan)
  /\ ~trace.injected

\* C2: applying a plan and then the plan built from the rollback moves it
\* returned succeeds and restores the file paths and contents the tree had
\* before the first apply.
C2_RoundTrip ==
  (Finished /\ IsRoundTrip /\ WellFormed(prev.plan))
  => (pc = "done" /\ FileMap(fs) = FileMap(prev.fs0))

\* ---------------------------------------------------------------------- C3
Executed == {moves_to_apply[i] : i \in 1..Len(moves_to_apply)}

Succeeded == calls > 0 /\ pc = "done" /\ ~dry_run /\ moves_to_apply # <<>>

\* C3: after a successful non-dry-run apply of a plan with unique sources and
\* unique destinations, every executed move's dst holds the content its src
\* had before the call, every src that is no move's dst is absent, no other
\* file changed, and no staging directory is left.
C3_ApplyPostcondition ==
  (Succeeded /\ WellFormed(plan))
  => /\ \A r \in Executed : IsFile(fs, r.dst) /\ fs[r.dst] = fs0[r.src]
     /\ \A r \in Executed :
          (\A q \in Executed : q.dst # r.src) => ~Exists(fs, r.src)
     /\ \A p \in (Files(fs) \cup Files(fs0))
                   \ ({r.src : r \in Executed} \cup {r.dst : r \in Executed}) :
          p \in Files(fs) /\ p \in Files(fs0) /\ fs[p] = fs0[p]
     /\ \A d \in StagingDirs : ~Exists(fs, d)

\* ---------------------------------------------------------------------- C4
\* The executor the call at hand did not use, run on the tree the call
\* started from.
OtherExecutor ==
  IF two_stage
  THEN SingleRun(fs0, moves_to_apply, _single_stage_order(moves_to_apply), 1)
  ELSE StagedRun(fs0, moves_to_apply, TempDirOf(calls))

\* A non-dry-run call on an acyclic batch that passed validation is over, and
\* no move was made to raise.
RanAcyclic ==
  /\ Finished
  /\ ~dry_run
  /\ moves_to_apply # <<>>
  /\ ~HasCycle(moves_to_apply)
  /\ ~trace.injected

\* C4: on an acyclic batch that passed validation, single-stage and staged
\* execution from the same tree both succeed and leave the same tree.
C4_Convergence ==
  (RanAcyclic /\ WellFormed(plan))
  => (pc = "done" /\ OtherExecutor.ok /\ OtherExecutor.fs = fs)

\* ---------------------------------------------------------------------- C5
\* A non-dry-run call without the staged option, past validation, on a batch
\* with unique sources whose dependency graph has a cycle.
CyclicSingleStage ==
  /\ calls > 0
  /\ ~dry_run
  /\ ~two_stage
  /\ UniqueSources(plan)
  /\ HasCycle(moves_to_apply)

\* C5: a non-dry-run apply of a cyclic batch without the staged option never
\* returns; it raises the cycle error, whose message names --two-stage, and
\* the tree is exactly as before the call: nothing was moved or created.
C5_CycleErrorBeforeAnyMove ==
  CyclicSingleStage
  => /\ pc \in {"single_stage", "failed"}
     /\ pc = "failed"
          => error = "cycle detected in rename plan; re-run with --two-stage"
     /\ fs = fs0
     /\ applied = <<>>
     /\ ~result.returned

\* The swap a.mkv <-> b.ass was refused by the scheduler.
C5_Witness ==
  /\ CyclicSingleStage
  /\ pc = "failed"
  /\ error = ErrCycle
  /\ Len(moves_to_apply) = 2
  /\ IsFile(fs, PathA)
  /\ IsFile(fs, PathB)

\* ---------------------------------------------------------------------- C6
\* C6 as stated: a non-dry-run apply of a cyclic batch without the staged
\* option switches to the staged executor, so the call returns with every
\* move of the batch executed.
C6_CycleFallsBackToStaged ==
  (CyclicSingleStage /\ Finished)
  => /\ pc = "done"
     /\ Len(result.applied) = Len(moves_to_apply)

\* C6, amended: the staged executor runs only when the caller asked for it and
\* the scheduler only when the caller did not; a cycle reported by the
\* scheduler does not switch executors: no staging directory is made, nothing
\* is staged or executed, and the call ends with the cycle error.
C6_StagedOnlyOnRequest ==
  /\ pc \in {"two_stage", "stage", "commit", "two_rollback"} => two_stage
  /\ pc \in {"single_stage", "single_move", "single_rollback"} => ~two_stage
  /\ trace.phase \in {"stage", "commit"} => two_stage
  /\ trace.phase \in {"order", "single"} => ~two_stage
  /\ (temp_dir # None \/ staged # <<>> \/ result.temp_dir # None) => two_stage
  /\ CyclicSingleStage
       => /\ temp_dir = None
          /\ staged = <<>>
          /\ applied = <<>>
          /\ \A d \in StagingDirs : ~Exists(fs, d)
          /\ pc # "done"
          /\ pc = "failed" => error = ErrCycle

\* The scheduler reported a cycle and the call ended there, with no staging
\* directory on disk.
C6_Witness ==
  /\ CyclicSingleStage
  /\ trace.phase = "order"
  /\ error = ErrCycle
  /\ temp_dir = None
  /\ ~Exists(fs, TempDirOf(calls))

\* ---------------------------------------------------------------------- C7
\* Some move's resolved src is missing or not a regular file, or some move's
\* resolved dst exists and is no move's resolved src.
Offending(f, moves) ==
  \E i \in 1..Len(moves) :
    \/ ~IsFile(f, _resolve_path(moves[i].src))
    \/ /\ Exists(f, _resolve_path(moves[i].dst))
       /\ _resolve_path(moves[i].dst) \notin Srcs(moves)

\* C7: a call on a plan with an offending move, in any mode and whatever the
\* move's position, raises a validation error and leaves the tree exactly as
\* it was before the call.
C7_ValidationPrecedesMutation ==
  (calls > 0 /\ Offending(fs0, plan))
  => /\ pc = "failed"
     /\ error \in ValidationErrors
     /\ fs = fs0
     /\ ~result.returned
     /\ temp_dir = None

\* A staged, non-dry-run call whose first move is sound and whose second
\* move's dst exists without being a src.
C7_Witness ==
  /\ calls > 0
  /\ WellFormed(plan)
  /\ pc = "failed"
  /\ ~dry_run
  /\ two_stage
  /\ Len(plan) = 2
  /\ IsFile(fs0, _resolve_path(plan[1].src))
  /\ ~Exists(fs0, _resolve_path(plan[1].dst))
  /\ IsFile(fs0, _resolve_path(plan[2].src))
  /\ Exists(fs0, _resolve_path(plan[2].dst))
  /\ error = ErrDestination

\* ---------------------------------------------------------------------- C8
\* C8: a non-dry-run apply of a plan in which two moves with different
\* sources share a dst ends, with no move made to raise, in a validation
\* error with the tree unchanged, so that no move overwrites the file another
\* move of the run put at that dst.
C8_UnsoundPlanRejected ==
  (/\ Finished
   /\ ~dry_run
   /\ ~trace.injected
   /\ UniqueSources(plan)
   /\ ~UniqueDestinations(plan))
  => /\ pc = "failed"
     /\ error \in ValidationErrors
     /\ fs = fs0

\* ---------------------------------------------------------------------- C9
\* C9: a dry-run call never changes the tree, whatever came before it: it is
\* over at once, without a staging directory; it raises only validation
\* errors, and on a plan that passes validation it returns dry_run = true, an
\* empty applied list and no staging directory.  A dry run after a dry run
\* still sees the tree the first one saw.
C9_DryRunIdempotence ==
  (calls > 0 /\ dry_run)
  => /\ fs = fs0
     /\ pc \in {"done", "failed"}
     /\ temp_dir = None
     /\ pc = "failed" => error \in ValidationErrors
     /\ ValidationError(fs0, plan) = NoError
          => /\ pc = "done"
             /\ result.returned
             /\ result.dry_run
             /\ result.applied = <<>>
             /\ result.temp_dir = None
     /\ (prev.valid /\ prev.dry_run) => fs = prev.fs0

\* The second of two dry runs of a two-move plan returned, on a tree where
\* the parent of some destination does not exist.
C9_Witness ==
  /\ calls = 2
  /\ WellFormed(plan)
  /\ dry_run
  /\ prev.valid
  /\ prev.dry_run
  /\ pc = "done"
  /\ Len(moves_to_apply) = 2
  /\ \E i \in 1..2 : ~Exists(fs, Parent(moves_to_apply[i].dst))

\* --------------------------------------------------------------------- C10
\* C10: every return of apply_rename_plan carries rollback moves of the same
\* length and order as the plan, the i-th being the i-th plan move with src
\* and dst swapped and the same kind and src_id; inverting them gives back
\* the plan.
C10_RollbackIsStructuralInverse ==
  result.returned
  => /\ pc = "done"
     /\ Len(result.rollback_moves) = Len(plan)
     /\ \A i \in 1..Len(plan) :
          /\ result.rollback_moves[i].src = plan[i].dst
          /\ result.rollback_moves[i].dst = plan[i].src
          /\ result.rollback_moves[i].kind = plan[i].kind
          /\ result.rollback_moves[i].src_id = plan[i].src_id
     /\ build_rollback_moves(result.rollback_moves) = plan

\* A staged call returned having executed fewer moves than the plan has: one
\* move of the plan was a no-op.
C10_Witness ==
  /\ result.returned
  /\ WellFormed(plan)
  /\ ~result.dry_run
  /\ two_stage
  /\ Len(result.applied) > 0
  /\ Len(result.applied) < Len(plan)

\* --------------------------------------------------------------------- C11
\* The positions of the plan whose move is a no-op: resolved src = resolved
\* dst.
NoOps(moves) ==
  {i \in 1..Len(moves) : _resolve_path(moves[i].src) = _resolve_path(moves[i].dst)}

\* C11: a no-op move is validated like any other (a missing source fails the
\* call before anything changes); on a successful non-dry-run apply of a plan
\* with unique sources and destinations, applied holds exactly the moves that
\* are not no-ops, every no-op's file is where and what it was, and the
\* rollback moves hold the no-op at its position with src and dst swapped; a
\* plan of no-ops only returns an empty applied list, no staging directory,
\* and the tree as it was.
C11_NoOpMoves ==
  /\ (calls > 0
      /\ \E i \in NoOps(plan) : ~IsFile(fs0, _resolve_path(plan[i].src)))
       => (pc = "failed" /\ error \in ValidationErrors /\ fs = fs0)
  /\ (calls > 0 /\ pc = "done" /\ ~dry_run /\ WellFormed(plan))
       => /\ Len(result.applied) = Len(plan) - Cardinality(NoOps(plan))
          /\ {result.applied[k] : k \in 1..Len(result.applied)}
               = {plan[i] : i \in (1..Len(plan)) \ NoOps(plan)}
          /\ \A i \in NoOps(plan) :
               /\ IsFile(fs, _resolve_path(plan[i].src))
               /\ fs[_resolve_path(plan[i].src)] = fs0[_resolve_path(plan[i].src)]
               /\ result.rollback_moves[i].src = plan[i].dst
               /\ result.rollback_moves[i].dst = plan[i].src
  /\ (calls > 0 /\ pc = "done" /\ ~dry_run /\ NoOps(plan) = 1..Len(plan))
       => /\ result.applied = <<>>
          /\ result.temp_dir = None
          /\ fs = fs0

\* A staged call returned on a two-move plan whose first move names its own
\* source through another spelling of the path, and whose second move was
\* executed.
C11_Witness ==
  /\ calls = 1
  /\ pc = "done"
  /\ ~dry_run
  /\ two_stage
  /\ WellFormed(plan)
  /\ Len(plan) = 2
  /\ NoOps(plan) = {1}
  /\ plan[1].src # plan[1].dst
  /\ Len(result.applied) = 1

\* --------------------------------------------- vocabulary of the monitor claims
BuildOps == {"build_ok", "build_failed"}
ApplyOps == {"apply_ok", "apply_failed", "apply_killed"}

\* The step at hand is a step of the monitor that did one of ops for d.
Invoked(ops, d) == last' # last /\ last'.op \in ops /\ last'.dir = d

\* The step at hand is the body of the loop over the pending directories, run
\* for d.
PendingBody(d) ==
  /\ mpc = "pending" /\ queue # <<>> /\ Head(queue) = d
  /\ last' # last /\ last'.op # "crash"

\* The monitor process outlives the step at hand.
Alive == mpc' # "stopped"

\* The newest modification time under d, skip-listed subdirectories excluded.
Newest(d) ==
  Max({0} \cup
      {mtime[q] : q \in
         {x \in DOMAIN mtime :
            /\ IsPrefix(DirPath(d), x)
            /\ ~\E k \in 3..Len(x) :
                  x[k] \in SKIP_DIR_NAMES /\ IsDir(fs, SubSeq(x, 1, k))}})

\* d has been quiet for the settle window of the running process.
Quiet(d) ==
  args.settle_seconds = 0 \/ now - Newest(d) >= args.settle_seconds

\* Where the other directories stand is the same in the two states.
OthersKept(before, after, d) ==
  \A x \in Dirs \ {d} :
    /\ x \in before.baseline <=> x \in after.baseline
    /\ x \in before.pending <=> x \in after.pending
    /\ x \in before.planned <=> x \in after.planned
    /\ x \in before.processed <=> x \in after.processed
    /\ x \in before.failed <=> x \in after.failed

\* C12: once the state file has recorded a directory as planned and the
\* monitor was stopped by a kill before that directory's apply was recorded,
\* the plan builder is never invoked for the directory again, and a pass
\* started under --apply that loads it as planned lists it for applying.
C12_ResumeAtApply ==
  [][\A d \in Dirs :
       /\ d \in ever.interrupted => ~Invoked(BuildOps, d)
       /\ ( /\ d \in ever.interrupted
            /\ Invoked({"discover"}, NoDir)
            /\ args.apply
            /\ d \in state.planned \ state.failed
            /\ Alive )
          => mpc' = "planned" /\ \E i \in 1..Len(queue') : queue'[i] = d]_vars

\* C13: a directory the state file has recorded as processed is never planned
\* or applied again, and a directory it has recorded as pending or planned is
\* tracked by every state it holds later.
C13_NoDoubleProcessingNoDrop ==
  [][\A d \in Dirs :
       /\ d \in ever.processed => ~Invoked(BuildOps \cup ApplyOps, d)
       /\ (d \in ever.pending \cup ever.planned /\ state_file'.origin = "v3")
          => d \in Tracked(state_file'.state)]_vars

\* C14: a directory whose moves the engine had performed, wholly or partly,
\* when the process was killed before planned -> processed was written, is not
\* recorded as failed afterwards (no write of the state file was interrupted).
C14_InDoubtRedoIsSafe ==
  \A d \in Dirs :
    (d \in ever.in_doubt /\ ~ever.torn) => d \notin state_file.state.failed

\* C15: a directory the state file has recorded as failed is failed in every
\* state it holds later, is never pending or planned there, and neither the
\* plan builder nor the apply engine is invoked for it again.
C15_FailedIsSticky ==
  [][\A d \in ever.failed :
       /\ ~Invoked(BuildOps \cup ApplyOps, d)
       /\ state_file'.origin = "v3"
          => /\ d \in state_file'.state.failed
             /\ d \notin state_file'.state.pending \cup state_file'.state.planned]_vars

\* C16: a step in which planning or applying d raised records d as failed and
\* nothing else, leaves where every other directory stands untouched, and
\* goes on with the directories left in the loop; a pass ends only when
\* every directory it listed was visited, and a monitor that returns,
\* returns 0.
C16_FailureIsolation ==
  [][/\ \A d \in Dirs :
          (Invoked({"build_failed", "apply_failed"}, d) /\ Alive)
          => /\ state_file'.origin = "v3"
             /\ d \in state_file'.state.failed
             /\ d \notin state_file'.state.pending \cup state_file'.state.planned
             /\ OthersKept(state, state_file'.state, d)
             /\ mpc' \in {"planned", "pending"}
             /\ queue' = Tail(queue)
     /\ Invoked({"pass_end"}, NoDir)
        => /\ pass.listed \subseteq pass.visited
           /\ ~Alive => rc' = "0"]_vars

\* A pass in which planning A raised, B was planned and applied after it, and
\* the run returned 0.
C16_Witness ==
  /\ mpc = "stopped"
  /\ last.op = "pass_end"
  /\ rc = "0"
  /\ pass.raised = {"A"}
  /\ pass.visited = {"A", "B"}
  /\ "A" \in state_file.state.failed
  /\ "B" \in state_file.state.processed
  /\ IsFile(fs, DstOf("B", "e1.mkv"))

\* C17: under a settle window, the plan builder is invoked for a pending
\* directory only if the directory has been quiet for the window; passing
\* over a directory that has not writes no plan file, moves no file and
\* leaves the state file alone; the directory is not planned or applied later
\* in the pass, and is pending in the state file when the pass ends.
C17_SettleGatingSafety ==
  [][\A d \in Dirs :
       /\ PendingBody(d) /\ ~Quiet(d) => last'.op \notin BuildOps
       /\ Invoked({"unsettled"}, d)
          => ~Quiet(d) /\ UNCHANGED <<fs, plan_files, state_file>>
       /\ d \in pass.unsettled
          => /\ ~Invoked(BuildOps \cup ApplyOps, d)
             /\ Invoked({"pass_end"}, NoDir) /\ state_file.origin = "v3"
                => d \in state_file.state.pending]_vars

\* A pass under a settle window has passed over A, which is still pending
\* and has no plan file, and has ended.
C17_Witness ==
  /\ last.op = "pass_end"
  /\ args.settle_seconds > 0
  /\ pass.unsettled = {"A"}
  /\ "A" \in state_file.state.pending
  /\ ~plan_files["A"].has_plan
  /\ IsFile(fs, <<"watch", "A", "e1.mkv">>)

\* C18: a pending directory that is under the input root and has been quiet
\* for the settle window has its plan built when the loop comes to it, and
\* every pending directory is visited by a pass that reaches its end; when
\* the builder returns, the plan file is written and the directory is
\* recorded as planned and no longer pending; under --apply the plan is then
\* applied in the same pass, and when the engine returns the files are at
\* their destinations and the directory is recorded as processed, neither
\* pending nor planned.
C18_SettleGatingProgress ==
  [][/\ \A d \in Dirs :
          /\ ( /\ PendingBody(d)
               /\ d \notin state.failed
               /\ IsDir(fs, DirPath(d))
               /\ d \in current_dirs
               /\ Quiet(d) )
             => last'.op \in BuildOps
          /\ (Invoked({"build_ok"}, d) /\ Alive)
             => /\ plan_files'[d].has_plan
                /\ state_file'.origin = "v3"
                /\ d \in state_file'.state.planned
                /\ d \notin state_file'.state.pending
                /\ args.apply => mpc' = "promote" /\ Head(queue') = d
          /\ mpc = "promote" /\ Head(queue) = d /\ last' # last
             => \/ last'.op = "crash"
                \/ last'.dir = d /\ last'.op \in ApplyOps
          /\ (Invoked({"apply_ok"}, d) /\ Alive)
             => /\ state_file'.origin = "v3"
                /\ d \in state_file'.state.processed
                /\ d \notin state_file'.state.pending \cup state_file'.state.planned
                /\ \A i \in 1..Len(plan_files[d].plan) :
                     /\ IsFile(fs', plan_files[d].plan[i].dst)
                     /\ ~Exists(fs', plan_files[d].plan[i].src)
     /\ Invoked({"pass_end"}, NoDir) => state.pending \subseteq pass.visited]_vars

\* Under a settle window and --apply, the clock has left the window behind
\* and the pass at hand has just applied the plan it built for A.
C18_Witness ==
  /\ args.settle_seconds > 0
  /\ args.apply
  /\ now >= SettleSeconds
  /\ last = [op |-> "apply_ok", dir |-> "A"]
  /\ mpc = "pending"
  /\ "A" \in state_file.state.processed
  /\ "A" \notin state_file.state.pending \cup state_file.state.planned
  /\ IsFile(fs, DstOf("A", "e1.mkv"))
  /\ IsFile(fs, DstOf("A", "e1.ass"))

\* C19: a directory in which a file arrived after its plan was written and
\* before the plan was applied is not recorded as processed (no write of the
\* state file was interrupted).
C19_ChangedTreeIsNotFinalized ==
  \A d \in Dirs :
    (d \in ever.changed /\ ~ever.torn) => d \notin state_file.state.processed

\* C20: a directory the monitor has applied and recorded as processed is no
\* longer at its path under the input root.
C20_SourceDirectoryFinalized ==
  \A d \in Dirs :
    (d \in ever.applied /\ d \in state_file.state.processed)
    => ~Exists(fs, DirPath(d))

\* --------------------------------------------------------------------- C24
\* No two moves of the batch have the same source.
DistinctSources(mta) ==
  \A i, j \in 1..Len(mta) : i # j => mta[i].src # mta[j].src

\* Move x waits for move y: y's source is x's destination.
DependsOn(mta, x, y) == x # y /\ mta[y].src = mta[x].dst

\* The orders of all indices of a batch of n moves.
Orders(n) ==
  {o \in [1..n -> 1..n] : \A k, l \in 1..n : k # l => o[k] # o[l]}

\* In ord every move comes after the move it waits for.
Topological(mta, ord) ==
  \A k, l \in 1..Len(ord) : DependsOn(mta, ord[k], ord[l]) => l < k

\* a comes before b in the lexicographic order, or is b.
LexLeq(a, b) ==
  \/ a = b
  \/ \E k \in 1..Len(a) :
       /\ a[k] < b[k]
       /\ \A l \in 1..(k - 1) : a[l] = b[l]

\* C24: for a batch with distinct sources, the scheduler raises the cycle
\* error exactly when the dependency graph has a cycle, and otherwise returns
\* an order of all indices of the batch in which every move comes after the
\* move it waits for, the lexicographically smallest of these orders.
C24_SchedulerOrder ==
  (pc # "single_stage" /\ DistinctSources(moves_to_apply))
  => /\ HasCycle(moves_to_apply) <=> (pc = "failed" /\ error = ErrCycle)
     /\ ~HasCycle(moves_to_apply)
          => /\ pc = "single_move"
             /\ order \in Orders(Len(moves_to_apply))
             /\ Topological(moves_to_apply, order)
             /\ \A o \in Orders(Len(moves_to_apply)) :
                  Topological(moves_to_apply, o) => LexLeq(order, o)

\* A batch of three moves in which the first waits for the second and the
\* third waits for none: of its three topological orders the scheduler
\* returned the smallest, which is neither the input order nor its reverse.
C24_Witness ==
  /\ pc = "single_move"
  /\ DistinctSources(moves_to_apply)
  /\ Len(moves_to_apply) = 3
  /\ DependsOn(moves_to_apply, 1, 2)
  /\ order = <<2, 1, 3>>
  /\ Topological(moves_to_apply, <<3, 2, 1>>)
  /\ Topological(moves_to_apply, <<2, 3, 1>>)

\* --------------------------------------------------------------------- C26
\* The temp slots of the records staged so far.
Slots == {staged[i].tmp_path : i \in 1..Len(staged)}

\* The record staged i-th is the i-th move of the batch.
InInputOrder ==
  /\ Len(staged) <= Len(moves_to_apply)
  /\ \A i \in 1..Len(staged) :
       /\ staged[i].move = moves_to_apply[i].move
       /\ staged[i].src = moves_to_apply[i].src
       /\ staged[i].dst = moves_to_apply[i].dst

\* The i-th record's file is in its slot, as it was at its source before the
\* call.
InSlot(i) ==
  /\ IsFile(fs, staged[i].tmp_path)
  /\ fs[staged[i].tmp_path] = fs0[staged[i].src]

\* C26: the staged executor stages the moves of the batch in input order,
\* each in a slot of its own inside the staging directory that is no move's
\* src or dst; while it stages, no file is anywhere but at the path it had
\* before the call or in its slot; the commit loop starts when the whole
\* batch is staged and empties the slots in the same order, the slots of the
\* moves not yet committed holding their files untouched.
C26_TwoPhaseOrdering ==
  /\ pc \in {"stage", "commit", "two_rollback"}
       => /\ InInputOrder
          /\ Cardinality(Slots) = Len(staged)
          /\ \A i \in 1..Len(staged) :
               /\ Parent(staged[i].tmp_path) = temp_dir
               /\ \A j \in 1..Len(moves_to_apply) :
                    /\ staged[i].tmp_path # moves_to_apply[j].src
                    /\ staged[i].tmp_path # moves_to_apply[j].dst
  /\ pc = "stage"
       => /\ Len(staged) = idx - 1
          /\ \A i \in 1..Len(staged) : InSlot(i)
          /\ \A p \in Files(fs) \ Slots : p \in Files(fs0) /\ fs[p] = fs0[p]
  /\ pc = "commit"
       => /\ Len(staged) = Len(moves_to_apply)
          /\ \A i \in 1..Len(staged) :
               IF i < idx THEN ~Exists(fs, staged[i].tmp_path) ELSE InSlot(i)

\* Two videos with the same src_id were staged in the slots video_1.mkv and
\* video_1.mkv.1, and the first of them has been committed.
C26_Witness ==
  /\ pc = "commit"
  /\ idx = 2
  /\ Len(staged) = 2
  /\ staged[1].tmp_path = Append(temp_dir, "video_1.mkv")
  /\ staged[2].tmp_path = Append(temp_dir, "video_1.mkv.1")
  /\ IsFile(fs, staged[1].dst)
  /\ IsFile(fs, staged[2].tmp_path)

\* --------------------------------------------------------------------- C27
\* What one pass of a rollback loop may do to the tree: nothing, or the entry
\* at from is back at src.
Undone(from, src) ==
  \/ fs' = fs
  \/ /\ ~Exists(fs', from)
     /\ Exists(fs', src)
     /\ fs'[src] = fs[from]

\* C27: when a move of the staging loop or of the commit loop raises, the
\* rollback loop starts at the record staged last and attempts one record per
\* pass down to the first: the slot goes back to src if it exists, else dst
\* goes back to src if it exists; a pass whose move raises changes nothing
\* and the loop goes on with the record before; once every record was
\* attempted the call raises the ApplyError of the first failure and returns
\* nothing.
C27_StagedRollbackCompleteness ==
  [][/\ (pc # "two_rollback" /\ pc' = "two_rollback")
          => /\ pc \in {"stage", "commit"}
             /\ trace'.phase = pc
             /\ staged' = staged
             /\ idx' = Len(staged)
             /\ error' = NoError
     /\ (pc = "two_rollback" /\ idx >= 1)
          => /\ pc' = "two_rollback"
             /\ idx' = idx - 1
             /\ staged' = staged
             /\ error' = NoError
             /\ trace'.phase = trace.phase /\ trace'.k = trace.k
             /\ IF Exists(fs, staged[idx].tmp_path)
                THEN Undone(staged[idx].tmp_path, staged[idx].src)
                ELSE IF Exists(fs, staged[idx].dst)
                THEN Undone(staged[idx].dst, staged[idx].src)
                ELSE fs' = fs
             /\ trace'.rollback_failed # trace.rollback_failed => fs' = fs
     /\ (pc = "two_rollback" /\ idx = 0)
          => /\ pc' = "failed"
             /\ error' = ErrApply
             /\ ~result'.returned
             /\ fs' = fs
     /\ (pc # "failed" /\ pc' = "failed" /\ trace'.phase \in {"stage", "commit"})
          => pc = "two_rollback" /\ idx = 0]_vars

\* A commit move raised with two records staged; the rollback of the second
\* record raised and left its file in its slot, the first record's file was
\* put back all the same, and the call raised the ApplyError.
C27_Witness ==
  /\ pc = "failed"
  /\ error = ErrApply
  /\ two_stage
  /\ trace.phase = "commit"
  /\ trace.rollback_failed
  /\ Len(staged) = 2
  /\ IsFile(fs, staged[2].tmp_path)
  /\ ~Exists(fs, staged[2].src)
  /\ IsFile(fs, staged[1].src)
  /\ fs[staged[1].src] = fs0[staged[1].src]

\* --------------------------------------------------------------------- C28
\* C28: when a move of the single-stage executor raises (and no move of the
\* rollback loop raises), the call raises the ApplyError and returns nothing,
\* every file is back at the path it had before the call with the content it
\* had, and no file the run put at a destination remains.
C28_SingleStageFailureAtomicity ==
  (/\ pc = "failed"
   /\ ~two_stage
   /\ trace.phase = "single"
   /\ ~trace.rollback_failed
   /\ WellFormed(plan))
  => /\ error = ErrApply
     /\ ~result.returned
     /\ FileMap(fs) = FileMap(fs0)

PassStart == last' # last /\ last'.op \in {"load", "bootstrap"}

\* The step at hand makes the monitor return 0.
Returns0 == rc # "0" /\ rc' = "0"

\* The process is in the middle of a pass with work of the pass left to do.
MidPass ==
  /\ mpc \notin {"stopped", "load"}
  /\ ~(mpc = "pending" /\ queue = <<>>)

\* C22: with --once a monitor process runs one pass and returns 0; without it
\* the end of a pass leads to the next pass.  Once SIGTERM or SIGINT has set
\* the shutdown flag no pass starts: the process seen at the top of the loop
\* leaves it and returns 0, and the pass that was running when the flag was
\* set runs to its end first, every step of it as without the flag, and
\* returns 0 with the state file holding the state the pass arrived at.
C22_LoopTermination ==
  [][/\ (PassStart /\ args.once) => last.op = "run"
     /\ ( /\ args.once
          /\ last' # last
          /\ last'.op \in {"pass_end", "bootstrap"}
          /\ rc' # "killed" )
          => /\ mpc' = "stopped"
             /\ rc' = "0"
     /\ (Invoked({"pass_end"}, NoDir) /\ ~args.once /\ ~shutdown_requested)
          => /\ mpc' = "load"
             /\ rc' = rc
     /\ shutdown_requested => ~PassStart
     /\ (shutdown_requested /\ mpc = "load" /\ last' # last)
          => /\ mpc' = "stopped"
             /\ rc' \in {"0", "killed"}
             /\ state_file' = state_file
             /\ fs' = fs
     /\ (shutdown_requested /\ Invoked({"pass_end"}, NoDir))
          => /\ mpc' = "stopped"
             /\ rc' = "0"
     /\ (shutdown_requested /\ MidPass /\ rc' # "killed")
          => /\ mpc' # "stopped"
             /\ rc' = rc
             /\ shutdown_requested'
     /\ Returns0
          => /\ last'.op \in {"pass_end", "bootstrap", "shutdown"}
             /\ ~MidPass
             /\ last'.op = "pass_end"
                  => /\ state_file' = state_file
                     /\ state_file = _write_monitor_state(state)]_vars

\* Without --once: the flag was set during the pass that applied the plan of
\* A; the pass went on to its end, A is processed in the state file, and the
\* monitor has returned 0.
C22_Witness ==
  /\ ~args.once
  /\ mpc = "stopped"
  /\ rc = "0"
  /\ last.op = "pass_end"
  /\ "A" \in state_file.state.processed
  /\ "A" \in ever.applied

ApplyStarts(d) ==
  Invoked({"apply_ok", "apply_failed", "apply_killed"}, d)

\* C25: the step of the monitor that builds a plan writes the plan file and
\* the state file with the directory planned and moves nothing; and when the
\* apply engine is started for a directory, the state file lists the directory
\* as planned and not as pending, and the engine gets the plan of the plan
\* file.  No step of the monitor but one that runs the engine changes the
\* tree.
C25_PersistBeforeApply ==
  [][\A d \in Dirs :
       /\ (Invoked({"build_ok"}, d) /\ Alive)
            => /\ fs' = fs
               /\ plan_files'[d].has_plan
               /\ state_file'.origin = "v3"
               /\ d \in state_file'.state.planned
               /\ d \notin state_file'.state.pending
       /\ ApplyStarts(d)
            => /\ state_file.origin = "v3"
               /\ d \in state_file.state.planned
               /\ d \notin state_file.state.pending
               /\ mpc = "promote" => plan_files[d].has_plan
               /\ fs' # fs => plan_files[d].has_plan
       /\ (last' # last /\ last'.dir = d /\ fs' # fs) => ApplyStarts(d)]_vars

\* Under --apply the plan of A was built and applied by one pass: the state
\* file went from pending over planned to processed, and the plan file and
\* the rollback file are there.
C25_Witness ==
  /\ args.apply
  /\ last = [op |-> "apply_ok", dir |-> "A"]
  /\ pass.visited = {"A"}
  /\ "A" \in ever.pending
  /\ "A" \in ever.planned
  /\ "A" \notin ever.interrupted
  /\ state_file.state.processed = {"A"}
  /\ plan_files["A"].has_plan
  /\ plan_files["A"].has_rollback

\* The lifecycle stage a persisted state gives a directory.
StageOf(st, d) ==
  IF d \in st.failed THEN "failed"
  ELSE IF d \in st.processed THEN "processed"
  ELSE IF d \in st.planned THEN "planned"
  ELSE IF d \in st.pending THEN "pending"
  ELSE "untracked"

LegalTransitions ==
  {<<"untracked", "pending">>, <<"pending", "planned">>,
   <<"planned", "processed">>, <<"pending", "failed">>,
   <<"planned", "failed">>}

\* What C29 asks of a step that leaves the state file holding a state.
LegalStep(d) ==
  /\ ( /\ state_file.origin \in {"missing", "v3"}
       /\ StageOf(state_file'.state, d) # StageOf(state_file.state, d) )
       => <<StageOf(state_file.state, d), StageOf(state_file'.state, d)>>
            \in LegalTransitions
  /\ d \in ever.processed => StageOf(state_file'.state, d) = "processed"
  /\ d \in ever.failed => StageOf(state_file'.state, d) = "failed"
  /\ d \in ever.planned
       => StageOf(state_file'.state, d) \in {"planned", "processed", "failed"}
  /\ d \in ever.pending => StageOf(state_file'.state, d) # "untracked"
  /\ StageOf(state_file'.state, d) = "processed" => d \in ever.planned

\* C29: from one state the state file holds to the next, a directory changes
\* stage only by untracked -> pending, pending -> planned, planned ->
\* processed, pending -> failed or planned -> failed; a directory persisted
\* as planned is never pending or untracked later, one persisted as processed
\* or failed stays so, and a processed directory was persisted as planned
\* before.
C29_LegalTransitionsOnly ==
  [][\A d \in Dirs : state_file'.origin = "v3" => LegalStep(d)]_vars

\* The four lifecycle sets of a state are pairwise disjoint.
Disjoint(st) ==
  /\ st.pending \cap st.planned = {}
  /\ st.pending \cap st.processed = {}
  /\ st.pending \cap st.failed = {}
  /\ st.planned \cap st.processed = {}
  /\ st.planned \cap st.failed = {}
  /\ st.processed \cap st.failed = {}

\* A failed directory is listed as pending or as planned.
FailedListed(st) == st.failed \cap (st.pending \cup st.planned) # {}

\* C30: every state the monitor writes, when it started without a state file,
\* has pending, planned, processed and failed pairwise disjoint; and a pass
\* that loaded a state with a failed directory in pending or planned writes
\* the state without it there before it moves or builds anything, so that
\* the plan builder and the apply engine run only when the state file holds
\* no such entry, and never for a failed directory.
C30_StateSetDisjointness ==
  [][/\ (~ever.edited /\ state_file'.origin = "v3") => Disjoint(state_file'.state)
     /\ (Invoked({"discover"}, NoDir) /\ FailedListed(state) /\ Alive)
          => /\ state_file'.origin = "v3"
             /\ state_file'.state = state'
             /\ ~FailedListed(state_file'.state)
             /\ state_file'.state.failed = state.failed
             /\ fs' = fs
             /\ plan_files' = plan_files
     /\ \A d \in Dirs :
          Invoked(BuildOps \cup ApplyOps, d)
            => /\ ~FailedListed(state_file.state)
               /\ d \notin state_file.state.failed]_vars

\* The edited file listed A as failed, as pending and as planned; the pass has
\* written the state with A failed only.
C30_Witness ==
  /\ ever.edited
  /\ last.op = "discover"
  /\ "A" \in ever.pending \cap ever.planned
  /\ state_file.origin = "v3"
  /\ state_file.state.failed = {"A"}
  /\ "A" \notin state_file.state.pending \cup state_file.state.planned

====
